---- MODULE Spec2Model ----
(***************************************************************************)
(* Conversation orchestration core of the e-commerce support agent:        *)
(* EscalationManager, EmotionDetector, ToolRegistry, ContextResolver,      *)
(* LLMResponseComposer, ConversationMemory and ConversationOrchestrator.   *)
(*                                                                         *)
(* Texts are TLA+ strings; Python's substring test, lower(), strip() and   *)
(* the regular expressions of the source are computed character by         *)
(* character.  Python's None is the reserved text None.  Wall-clock        *)
(* timestamps are not part of the model.                                   *)
(***************************************************************************)
EXTENDS Integers, Sequences, FiniteSets, TLC

(***************************************************************************)
(* Python text primitives                                                  *)
(***************************************************************************)
None == "<None>"
NoDict == << >>

UPPER == "ABCDEFGHIJKLMNOPQRSTUVWXYZ"
LOWER == "abcdefghijklmnopqrstuvwxyz"
DIGITS == "0123456789"

CharAt(s, i) == SubSeq(s, i, i)

CharsOf(s) == {CharAt(s, i) : i \in 1..Len(s)}

UpperChars == CharsOf(UPPER)
LowerChars == CharsOf(LOWER)
DigitChars == CharsOf(DIGITS)

LowerCharOf == [c \in UpperChars |-> CharAt(LOWER, CHOOSE i \in 1..Len(UPPER) : CharAt(UPPER, i) = c)]

LowerChar(c) == IF c \in UpperChars THEN LowerCharOf[c] ELSE c

\* str.isupper(), str.isalpha(), \d and \w on the ASCII texts of the model
IsUpper(c) == c \in UpperChars
IsAlpha(c) == c \in UpperChars \/ c \in LowerChars
IsDigit(c) == c \in DigitChars
IsWordChar(c) == IsAlpha(c) \/ IsDigit(c) \/ c = "_"

\* str.lower()
RECURSIVE LowerOf(_)
LowerOf(s) == IF s = "" THEN "" ELSE LowerChar(CharAt(s, 1)) \o LowerOf(SubSeq(s, 2, Len(s)))

\* str.strip()
RECURSIVE LStrip(_)
LStrip(s) == IF s # "" /\ CharAt(s, 1) = " " THEN LStrip(SubSeq(s, 2, Len(s))) ELSE s

RECURSIVE RStrip(_)
RStrip(s) == IF s # "" /\ CharAt(s, Len(s)) = " " THEN RStrip(SubSeq(s, 1, Len(s) - 1)) ELSE s

Strip(s) == RStrip(LStrip(s))

\* Python `needle in hay` on str
Contains(needle, hay) ==
    \E i \in 1..(Len(hay) - Len(needle) + 1) : SubSeq(hay, i, i + Len(needle) - 1) = needle

\* Python `x in list`
InList(x, list) == \E i \in 1..Len(list) : list[i] = x

\* [k for k in keywords if k in text]
Scan(keywords, text) == SelectSeq(keywords, LAMBDA k : Contains(k, text))

(***************************************************************************)
(* Keyword tables of the source                                            *)
(***************************************************************************)
TIER1_KEYWORDS ==
    << "refund", "money back", "cancel order", "cancel my order",
       "lawyer", "legal action", "sue", "court", "attorney",
       "chargeback", "dispute charge", "fraud", "scam", "stolen",
       "fuck", "shit", "bastard", "bitch",
       "consumer court", "consumer forum", "file complaint" >>

TIER2_KEYWORDS ==
    << "speak to human", "talk to person", "real person",
       "customer service", "manager", "supervisor",
       "ridiculous", "unacceptable", "disgusting", "horrible",
       "worst", "terrible", "pathetic", "useless" >>

\* TIER2_KEYWORDS[:4] and TIER2_KEYWORDS[4:]
HumanRequestSlice == 4

FRUSTRATION_KEYWORDS ==
    << "frustrated", "frustrating", "annoyed", "angry",
       "ridiculous", "terrible", "awful", "worst",
       "disappointed", "upset", "mad",
       "late", "delayed", "slow", "long", "why" >>

URGENCY_KEYWORDS ==
    << "urgent", "asap", "immediately", "now", "today",
       "emergency", "critical", "right away" >>

CONFUSION_KEYWORDS ==
    << "confused", "confusing", "don't understand",
       "unclear", "explain", "not sure" >>

POSITIVE_KEYWORDS ==
    << "thanks", "thank you", "appreciate", "great",
       "perfect", "excellent", "helpful", "good" >>

\* self.tools, in the insertion order that select_tool iterates
RegisteredTools ==
    << [name |-> "get_order_status", parameters |-> << "order_id" >>,
        keywords |-> << "order", "track", "status", "where", "delivery", "shipped" >>],
       [name |-> "search_knowledge", parameters |-> << "query", "brand_id" >>,
        keywords |-> << "policy", "return", "refund", "exchange", "shipping",
                        "warranty", "cancel" >>],
       [name |-> "get_product_info", parameters |-> << "product_id" >>,
        keywords |-> << "product", "item", "details", "available", "stock", "price" >>],
       [name |-> "check_shipping_eligibility", parameters |-> << "pincode" >>,
        keywords |-> << "ship", "deliver", "pincode", "location", "available" >>] >>

hallucination_phrases ==
    << "I'll cancel that for you",
       "I've processed the refund",
       "I'll upgrade your shipping",
       "tracking number is",
       "order number is" >>

(***************************************************************************)
(* Input texts, and the text primitives tabulated over them (the tables    *)
(* hold exactly what LowerOf and Scan compute; they only save evaluation)  *)
(***************************************************************************)
\* messages the caller sends to the orchestrator
Corpus ==
    { "",
      "I want a REFUND immediately",
      "I need customer service",
      "I want to speak to a human",
      "this is ridiculous and unacceptable",
      "Where is order 12345?",
      "why is it late?" }

\* messages of a long conversation: three frustrated ones (plain, with strong
\* frustration words, with an order number), a neutral request, a neutral
\* question and the empty one
ConvCorpus ==
    { "",
      "Where is order 12345?",
      "why is it late?",
      "this is ridiculous and unacceptable",
      "why is order 12345 so late?",
      "I want to speak to a human" }

\* one message per row of the scenario table, and an order question that
\* names no order
ScenarioCorpus ==
    { "Where is order 12345?",
      "Where is my order?",
      "this is ridiculous, where is order 12345?",
      "what's your return policy?",
      "this is ridiculous, what is your return policy",
      "ship to pincode 400001",
      "this is ridiculous and unacceptable",
      "hello there",
      "I want a REFUND immediately" }

\* every message a process_message call of the model may receive
TurnCorpus == Corpus \cup ConvCorpus \cup ScenarioCorpus

TIER1_PHRASES ==
    { "refund", "money back", "cancel order", "cancel my order",
      "lawyer", "legal action", "sue", "court", "attorney",
      "chargeback", "dispute charge", "fraud", "scam", "stolen",
      "fuck", "shit", "bastard", "bitch",
      "consumer court", "consumer forum", "file complaint" }

TIER2_PHRASES ==
    { "speak to human", "talk to person", "real person",
      "customer service", "manager", "supervisor",
      "ridiculous", "unacceptable", "disgusting", "horrible",
      "worst", "terrible", "pathetic", "useless" }

\* messages passed to should_escalate directly: every keyword on its own, and
\* sentences that mix tiers, letter cases and near misses
EscMessages ==
    TIER1_PHRASES \cup TIER2_PHRASES \cup
    { "",
      "hello",
      "I want a refund, or I talk to customer service",
      "I WANT MY MONEY BACK",
      "I will take legal action against you",
      "Cancel my order right now",
      "I want to speak to a human",
      "Let me talk to your manager",
      "this is ridiculous and unacceptable",
      "customer service is useless and pathetic",
      "This is still not resolved" }

NoCall == [raised |-> TRUE]

ResolverOutcomes ==
    { [raised |-> TRUE],
      [raised |-> FALSE,
       response |-> [json |-> TRUE,
                     obj |-> [about_current_topic |-> TRUE, confidence |-> 9]]],
      [raised |-> FALSE,
       response |-> [json |-> TRUE,
                     obj |-> [about_current_topic |-> FALSE, confidence |-> 9]]] }

ToolOutcomes ==
    { [raised |-> FALSE, value |-> "data"],
      [raised |-> TRUE, error |-> "Connection timeout"] }

LLMOutcomes ==
    { [raised |-> TRUE],
      [raised |-> FALSE, content |-> ""],
      [raised |-> FALSE, content |-> "Happy to help with that."] }

KnownTexts ==
    TurnCorpus \cup EscMessages
    \cup {o.content : o \in {x \in LLMOutcomes : ~ x.raised}}

LowerTable == [t \in KnownTexts |-> LowerOf(t)]

Lower(s) == IF s \in KnownTexts THEN LowerTable[s] ELSE LowerOf(s)

KnownKeywordLists ==
    { TIER1_KEYWORDS,
      SubSeq(TIER2_KEYWORDS, 1, HumanRequestSlice),
      SubSeq(TIER2_KEYWORDS, HumanRequestSlice + 1, Len(TIER2_KEYWORDS)),
      FRUSTRATION_KEYWORDS, URGENCY_KEYWORDS, CONFUSION_KEYWORDS, POSITIVE_KEYWORDS,
      hallucination_phrases }
    \cup {RegisteredTools[i].keywords : i \in 1..Len(RegisteredTools)}

KnownLowerTexts ==
    {LowerTable[t] : t \in KnownTexts} \cup {Strip(LowerTable[t]) : t \in KnownTexts}

ScanTable == [keywords \in KnownKeywordLists |-> [text \in KnownLowerTexts |-> Scan(keywords, text)]]

MatchedIn(keywords, text) ==
    IF keywords \in KnownKeywordLists /\ text \in KnownLowerTexts
    THEN ScanTable[keywords][text]
    ELSE Scan(keywords, text)

(***************************************************************************)
(* EscalationManager                                                       *)
(***************************************************************************)
Tier1ReasonOf(matched_keywords) ==
    IF \E k \in {"refund", "money back"} : InList(k, matched_keywords)
    THEN "refund_request"
    ELSE IF \E k \in {"cancel order", "cancel my order"} : InList(k, matched_keywords)
    THEN "cancellation_request"
    ELSE IF \E k \in {"lawyer", "legal", "sue", "court"} : InList(k, matched_keywords)
    THEN "legal_threat"
    ELSE IF \E k \in {"chargeback", "dispute", "fraud", "scam"} : InList(k, matched_keywords)
    THEN "chargeback_fraud"
    ELSE IF \E k \in {"fuck", "shit", "bastard", "bitch"} : InList(k, matched_keywords)
    THEN "severe_abuse"
    ELSE "tier1_trigger"

\* variant: a single Tier-1 phrase is not enough
_check_tier1_mandatory_pair(message) ==
    LET matched_keywords == MatchedIn(TIER1_KEYWORDS, message)
    IN  IF Len(matched_keywords) >= 2
        THEN [escalate |-> TRUE, reason |-> Tier1ReasonOf(matched_keywords),
              keywords |-> matched_keywords]
        ELSE [escalate |-> FALSE, reason |-> None, keywords |-> << >>]

_check_tier1_mandatory(message) ==
    LET matched_keywords == MatchedIn(TIER1_KEYWORDS, message)
    IN  IF matched_keywords # << >>
        THEN [escalate |-> TRUE, reason |-> Tier1ReasonOf(matched_keywords),
              keywords |-> matched_keywords]
        ELSE [escalate |-> FALSE, reason |-> None, keywords |-> << >>]

\* emotion_history[-n:]
LastN(seq, n) == SubSeq(seq, IF Len(seq) > n THEN Len(seq) - n + 1 ELSE 1, Len(seq))

FrustratedCount(entries) ==
    Cardinality({i \in 1..Len(entries) : entries[i].emotion = "frustrated"})

\* variant: the strong-frustration words are looked at before the emotion history
_check_tier2_conditional_words_first(message, emotion, emotion_history, confidence, tool_failures) ==
    LET human == MatchedIn(SubSeq(TIER2_KEYWORDS, 1, HumanRequestSlice), message)
        strong == MatchedIn(SubSeq(TIER2_KEYWORDS, HumanRequestSlice + 1,
                                   Len(TIER2_KEYWORDS)), message)
    IN  IF human # << >>
        THEN [escalate |-> TRUE, reason |-> "explicit_human_request",
              urgency |-> "high", keywords |-> human]
        ELSE IF Len(strong) >= 2
        THEN [escalate |-> TRUE, reason |-> "extreme_frustration",
              urgency |-> "high", keywords |-> strong]
        ELSE IF Len(emotion_history) >= 3 /\ FrustratedCount(LastN(emotion_history, 3)) >= 3
        THEN [escalate |-> TRUE, reason |-> "repeated_frustration",
              urgency |-> "high", keywords |-> << "repeated frustration" >>]
        ELSE IF confidence < 6
        THEN [escalate |-> TRUE, reason |-> "low_confidence",
              urgency |-> "medium", keywords |-> << "low confidence" >>]
        ELSE IF tool_failures >= 2
        THEN [escalate |-> TRUE, reason |-> "tool_failures",
              urgency |-> "medium", keywords |-> << "system issues" >>]
        ELSE [escalate |-> FALSE, reason |-> None, urgency |-> None, keywords |-> << >>]

\* variant: the tool-failure rule needs three failures
_check_tier2_conditional_three_failures(message, emotion, emotion_history, confidence, tool_failures) ==
    LET human == MatchedIn(SubSeq(TIER2_KEYWORDS, 1, HumanRequestSlice), message)
        strong == MatchedIn(SubSeq(TIER2_KEYWORDS, HumanRequestSlice + 1,
                                   Len(TIER2_KEYWORDS)), message)
    IN  IF human # << >>
        THEN [escalate |-> TRUE, reason |-> "explicit_human_request",
              urgency |-> "high", keywords |-> human]
        ELSE IF Len(emotion_history) >= 3 /\ FrustratedCount(LastN(emotion_history, 3)) >= 3
        THEN [escalate |-> TRUE, reason |-> "repeated_frustration",
              urgency |-> "high", keywords |-> << "repeated frustration" >>]
        ELSE IF confidence < 6
        THEN [escalate |-> TRUE, reason |-> "low_confidence",
              urgency |-> "medium", keywords |-> << "low confidence" >>]
        ELSE IF tool_failures >= 3
        THEN [escalate |-> TRUE, reason |-> "tool_failures",
              urgency |-> "medium", keywords |-> << "system issues" >>]
        ELSE IF Len(strong) >= 2
        THEN [escalate |-> TRUE, reason |-> "extreme_frustration",
              urgency |-> "high", keywords |-> strong]
        ELSE [escalate |-> FALSE, reason |-> None, urgency |-> None, keywords |-> << >>]

_check_tier2_conditional(message, emotion, emotion_history, confidence, tool_failures) ==
    LET human == MatchedIn(SubSeq(TIER2_KEYWORDS, 1, HumanRequestSlice), message)
        strong == MatchedIn(SubSeq(TIER2_KEYWORDS, HumanRequestSlice + 1,
                                   Len(TIER2_KEYWORDS)), message)
    IN  IF human # << >>
        THEN [escalate |-> TRUE, reason |-> "explicit_human_request",
              urgency |-> "high", keywords |-> human]
        ELSE IF Len(emotion_history) >= 3 /\ FrustratedCount(LastN(emotion_history, 3)) >= 3
        THEN [escalate |-> TRUE, reason |-> "repeated_frustration",
              urgency |-> "high", keywords |-> << "repeated frustration" >>]
        ELSE IF confidence < 6
        THEN [escalate |-> TRUE, reason |-> "low_confidence",
              urgency |-> "medium", keywords |-> << "low confidence" >>]
        ELSE IF tool_failures >= 2
        THEN [escalate |-> TRUE, reason |-> "tool_failures",
              urgency |-> "medium", keywords |-> << "system issues" >>]
        ELSE IF Len(strong) >= 2
        THEN [escalate |-> TRUE, reason |-> "extreme_frustration",
              urgency |-> "high", keywords |-> strong]
        ELSE [escalate |-> FALSE, reason |-> None, urgency |-> None, keywords |-> << >>]

\* variant: one frustrated entry among the last two already escalates
_should_try_empathy_first_once(emotion_history) ==
    IF Len(emotion_history) < 2
    THEN TRUE
    ELSE FrustratedCount(LastN(emotion_history, 2)) < 1

_should_try_empathy_first(emotion_history) ==
    IF Len(emotion_history) < 2
    THEN TRUE
    ELSE FrustratedCount(LastN(emotion_history, 2)) < 2

_build_escalation_message(reason, urgency) ==
    CASE reason = "refund_request" ->
           "I understand you'd like a refund. Let me connect you with our support team who can help process that for you right away."
      [] reason = "cancellation_request" ->
           "I understand you need to cancel your order. Let me connect you with our team who can assist with that immediately."
      [] reason = "legal_threat" ->
           "I understand your concerns. Let me connect you with our customer relations team who can address this matter properly."
      [] reason = "chargeback_fraud" ->
           "I take your concerns very seriously. Let me connect you with our support team immediately to resolve this."
      [] reason = "severe_abuse" ->
           "I'm here to help, but I need us to communicate respectfully. Let me connect you with a team member who can assist you."
      [] reason = "explicit_human_request" ->
           "Of course! Let me connect you with a team member right away."
      [] reason = "repeated_frustration" ->
           "I can see this has been frustrating for you, and I apologize for that. Let me connect you with our support team who can give this the attention it deserves."
      [] reason = "low_confidence" ->
           "I want to make sure you get accurate information. Let me connect you with a specialist who can help you better."
      [] reason = "tool_failures" ->
           "I'm having trouble accessing our systems right now. Let me connect you with our support team who can assist you directly."
      [] reason = "extreme_frustration" ->
           "I completely understand your frustration, and I apologize for the inconvenience. Let me connect you with our support team who can resolve this for you."
      [] OTHER ->
           "Let me connect you with our support team who can assist you better."

_build_empathy_message(emotion) ==
    IF emotion = "frustrated"
    THEN "I completely understand your frustration, and I'm truly sorry for the inconvenience. Let me do everything I can to help resolve this for you."
    ELSE IF emotion = "urgent"
    THEN "I understand this is urgent for you. Let me prioritize this and get you the information you need right away."
    ELSE "I understand this is important to you. Let me help resolve this for you."

\* variant: an empathy-first verdict also asks for the escalation
EscalationVerdict_empathy_escalates(context) ==
    LET message == Lower(context.message)
        tier1_result == _check_tier1_mandatory(message)
        tier2_result == _check_tier2_conditional(message, context.emotion,
                            context.emotion_history, context.confidence,
                            context.tool_failures)
    IN  IF tier1_result.escalate
        THEN [should_escalate |-> TRUE, escalation_tier |-> 1,
              reason |-> tier1_result.reason, urgency |-> "critical",
              suggested_message |-> _build_escalation_message(tier1_result.reason, "critical"),
              prevent_escalation |-> FALSE,
              keywords_matched |-> tier1_result.keywords]
        ELSE IF tier2_result.escalate
        THEN IF _should_try_empathy_first(context.emotion_history)
             THEN [should_escalate |-> TRUE, escalation_tier |-> 3,
                   reason |-> "empathy_first", urgency |-> "medium",
                   suggested_message |-> _build_empathy_message(context.emotion),
                   prevent_escalation |-> TRUE,
                   note |-> "Try empathy before escalating"]
             ELSE [should_escalate |-> TRUE, escalation_tier |-> 2,
                   reason |-> tier2_result.reason, urgency |-> tier2_result.urgency,
                   suggested_message |-> _build_escalation_message(tier2_result.reason,
                                                                   tier2_result.urgency),
                   prevent_escalation |-> FALSE,
                   keywords_matched |-> tier2_result.keywords]
        ELSE [should_escalate |-> FALSE, escalation_tier |-> 0,
              reason |-> "none", urgency |-> "none",
              suggested_message |-> None, prevent_escalation |-> FALSE]

\* the verdict computed by the body of should_escalate; confidence is in tenths
EscalationVerdict(context) ==
    LET message == Lower(context.message)
        tier1_result == _check_tier1_mandatory(message)
        tier2_result == _check_tier2_conditional(message, context.emotion,
                            context.emotion_history, context.confidence,
                            context.tool_failures)
    IN  IF tier1_result.escalate
        THEN [should_escalate |-> TRUE, escalation_tier |-> 1,
              reason |-> tier1_result.reason, urgency |-> "critical",
              suggested_message |-> _build_escalation_message(tier1_result.reason, "critical"),
              prevent_escalation |-> FALSE,
              keywords_matched |-> tier1_result.keywords]
        ELSE IF tier2_result.escalate
        THEN IF _should_try_empathy_first(context.emotion_history)
             THEN [should_escalate |-> FALSE, escalation_tier |-> 3,
                   reason |-> "empathy_first", urgency |-> "medium",
                   suggested_message |-> _build_empathy_message(context.emotion),
                   prevent_escalation |-> TRUE,
                   note |-> "Try empathy before escalating"]
             ELSE [should_escalate |-> TRUE, escalation_tier |-> 2,
                   reason |-> tier2_result.reason, urgency |-> tier2_result.urgency,
                   suggested_message |-> _build_escalation_message(tier2_result.reason,
                                                                   tier2_result.urgency),
                   prevent_escalation |-> FALSE,
                   keywords_matched |-> tier2_result.keywords]
        ELSE [should_escalate |-> FALSE, escalation_tier |-> 0,
              reason |-> "none", urgency |-> "none",
              suggested_message |-> None, prevent_escalation |-> FALSE]

\* A method of the manager object `self` yields the object after the call and
\* the returned value.
\* variant: a manager that has logged an escalation reports none
should_escalate_once(self, context) ==
    [self |-> self,
     result |-> IF self.escalation_history # << >>
                THEN [should_escalate |-> FALSE, escalation_tier |-> 0,
                      reason |-> "none", urgency |-> "none",
                      suggested_message |-> None, prevent_escalation |-> FALSE]
                ELSE EscalationVerdict(context)]

should_escalate(self, context) == [self |-> self, result |-> EscalationVerdict(context)]

log_escalation(self, escalation) ==
    [self EXCEPT !.escalation_history = Append(@, escalation)]

(***************************************************************************)
(* EmotionDetector                                                         *)
(***************************************************************************)
caps_count(message) == Cardinality({i \in 1..Len(message) : IsUpper(CharAt(message, i))})

total_letters(message) == Cardinality({i \in 1..Len(message) : IsAlpha(CharAt(message, i))})

Min(a, b) == IF a < b THEN a ELSE b

\* caps_usage > 0.5, with caps_usage = caps_count / total_letters when len(message) > 5
CapsUsageOverHalf(message) ==
    /\ Len(message) > 5
    /\ total_letters(message) > 0
    /\ 2 * caps_count(message) > total_letters(message)

\* indicators carries the matched word lists and whether caps_usage > 0.5
_calculate_emotion_score(indicators) ==
    LET frustration_count == Len(indicators.frustration_words)
        urgency_count == Len(indicators.urgency_words)
        confusion_count == Len(indicators.confusion_words)
        positive_count == Len(indicators.positive_words)
        e1 == IF frustration_count >= 2
              THEN IF indicators.caps_over_half
                   THEN [emotion |-> "angry", intensity |-> 9]
                   ELSE [emotion |-> "frustrated",
                         intensity |-> Min(frustration_count * 2 + 5, 10)]
              ELSE IF frustration_count = 1
              THEN [emotion |-> "frustrated", intensity |-> 4]
              ELSE [emotion |-> "neutral", intensity |-> 0]
        e2 == IF urgency_count > 0 /\ e1.emotion = "neutral"
              THEN [emotion |-> "urgent", intensity |-> Min(urgency_count * 2 + 4, 10)]
              ELSE e1
        e3 == IF confusion_count > 0 /\ e2.emotion = "neutral"
              THEN [emotion |-> "confused", intensity |-> 3]
              ELSE e2
    IN  IF positive_count > 0 /\ e3.emotion = "neutral"
        THEN [emotion |-> "positive", intensity |-> 2]
        ELSE e3

detect_emotion(message) ==
    LET msg_lower == Strip(Lower(message))
    IN  _calculate_emotion_score(
            [frustration_words |-> MatchedIn(FRUSTRATION_KEYWORDS, msg_lower),
             urgency_words |-> MatchedIn(URGENCY_KEYWORDS, msg_lower),
             confusion_words |-> MatchedIn(CONFUSION_KEYWORDS, msg_lower),
             positive_words |-> MatchedIn(POSITIVE_KEYWORDS, msg_lower),
             caps_over_half |-> CapsUsageOverHalf(message)])

\* the emotions of the known messages, computed once
EmotionTable == [message \in TurnCorpus |-> detect_emotion(message)]

EmotionOf(message) ==
    IF message \in DOMAIN EmotionTable THEN EmotionTable[message] ELSE detect_emotion(message)

(***************************************************************************)
(* ConversationMemory                                                      *)
(***************************************************************************)
\* ConversationContext() creates ConversationMemory(max_history=20, max_tokens=4000)
DEFAULT_MAX_HISTORY == 20
DEFAULT_MAX_TOKENS == 4000

\* a ConversationMemory object: its message list and its two limits
ConversationMemory(max_history, max_tokens) ==
    [messages |-> << >>, max_history |-> max_history, max_tokens |-> max_tokens]

_estimate_tokens_no_base(text) == Len(text) \div 4

_estimate_tokens(text) == (Len(text) \div 4) + 1

RECURSIVE SumTokens(_)
SumTokens(messages) ==
    IF messages = << >> THEN 0 ELSE Head(messages).tokens + SumTokens(Tail(messages))

_get_total_tokens(self) == SumTokens(self.messages)

_trim_history_keep_one_more(self) ==
    IF Len(self.messages) > self.max_history + 1
    THEN [self EXCEPT !.messages =
             SubSeq(@, Len(@) - self.max_history, Len(@))]
    ELSE self

_trim_history_oldest(self) ==
    IF Len(self.messages) > self.max_history
    THEN [self EXCEPT !.messages = SubSeq(@, 1, self.max_history)]
    ELSE self

_trim_history(self) ==
    IF Len(self.messages) > self.max_history
    THEN [self EXCEPT !.messages =
             SubSeq(@, Len(@) - self.max_history + 1, Len(@))]
    ELSE self

_trim_by_tokens_once(self) ==
    IF _get_total_tokens(self) > self.max_tokens /\ Len(self.messages) > 2
    THEN [self EXCEPT !.messages = Tail(@)]
    ELSE self

RECURSIVE _trim_by_tokens_to_one(_)
_trim_by_tokens_to_one(self) ==
    IF _get_total_tokens(self) > self.max_tokens /\ Len(self.messages) > 1
    THEN _trim_by_tokens_to_one([self EXCEPT !.messages = Tail(@)])
    ELSE self

RECURSIVE _trim_by_tokens(_)
_trim_by_tokens(self) ==
    IF _get_total_tokens(self) > self.max_tokens /\ Len(self.messages) > 2
    THEN _trim_by_tokens([self EXCEPT !.messages = Tail(@)])
    ELSE self

\* role is one of user / assistant / system at every call site of the orchestrator
add_message(self, role, content) ==
    LET appended == [self EXCEPT !.messages =
                        Append(@, [role |-> role, content |-> content,
                                   tokens |-> _estimate_tokens(content)])]
        by_count == IF Len(appended.messages) > appended.max_history
                    THEN _trim_history(appended)
                    ELSE appended
    IN  IF _get_total_tokens(by_count) > by_count.max_tokens
        THEN _trim_by_tokens(by_count)
        ELSE by_count

memory_clear(self) == [self EXCEPT !.messages = << >>]

(***************************************************************************)
(* Python dict primitives: a dict is a function on its keys; {} and None   *)
(* (where a dict is expected) are the empty function NoDict                *)
(***************************************************************************)
Has(d, k) == k \in DOMAIN d
Put(d, k, v) == (k :> v) @@ d

(***************************************************************************)
(* ToolRegistry                                                            *)
(***************************************************************************)
select_tool(user_message) ==
    LET message_lower == Lower(user_message)
        hits == {i \in 1..Len(RegisteredTools) :
                    MatchedIn(RegisteredTools[i].keywords, message_lower) # << >>}
    IN  IF hits = {}
        THEN None
        ELSE RegisteredTools[CHOOSE i \in hits : \A j \in hits : i <= j].name

\* the selections for the known messages, computed once
ToolTable == [message \in TurnCorpus |-> select_tool(message)]

ToolFor(user_message) ==
    IF user_message \in DOMAIN ToolTable THEN ToolTable[user_message]
    ELSE select_tool(user_message)

\* One call of the tool function: `outcome` is what the external tool does,
\* [raised |-> FALSE, value |-> data] or [raised |-> TRUE, error |-> text].
execute_tool(tool_name, kwargs, outcome) ==
    IF ~ \E i \in 1..Len(RegisteredTools) : RegisteredTools[i].name = tool_name
    THEN [success |-> FALSE, data |-> None,
          error |-> "Tool '" \o tool_name \o "' not found"]
    ELSE IF outcome.raised
    THEN [success |-> FALSE, data |-> None, error |-> outcome.error]
    ELSE [success |-> TRUE, data |-> outcome.value, error |-> None]

_classify_error(error_message) ==
    LET error_lower == IF error_message \in {None, ""} THEN "" ELSE LowerOf(error_message)
    IN  IF Contains("timeout", error_lower) THEN "timeout"
        ELSE IF Contains("connection", error_lower) \/ Contains("network", error_lower)
        THEN "connection"
        ELSE IF Contains("not found", error_lower) \/ Contains("404", error_lower)
        THEN "not_found"
        ELSE IF Contains("unauthorized", error_lower) \/ Contains("401", error_lower)
        THEN "auth"
        ELSE IF Contains("rate limit", error_lower) \/ Contains("429", error_lower)
        THEN "rate_limit"
        ELSE IF Contains("internal server", error_lower) \/ Contains("500", error_lower)
        THEN "server_error"
        ELSE "unknown"

\* the error texts the tools of the model fail with, classified once
ToolErrors ==
    { "Connection timeout", "Network unreachable", "Order not found",
      "401 unauthorized", "Rate limit exceeded", "500 Internal Server Error", "boom" }

ErrorClassTable == [error_message \in ToolErrors |-> _classify_error(error_message)]

ErrorClassOf(error_message) ==
    IF error_message \in ToolErrors THEN ErrorClassTable[error_message]
    ELSE _classify_error(error_message)

\* variant: every error is retried
_is_retryable_error_all(error_type) == TRUE

_is_retryable_error(error_type) ==
    error_type \in {"timeout", "connection", "rate_limit", "server_error"}

_build_fallback_message(tool_name, error) ==
    LET error_type == ErrorClassOf(error)
    IN  IF error_type \in {"timeout", "connection"}
        THEN IF tool_name = "get_order_status"
             THEN "I'm having trouble accessing your order details right now. Could you provide your email address so I can look it up another way?"
             ELSE "I'm having trouble accessing that information right now. Let me connect you with our support team."
        ELSE IF error_type = "not_found"
        THEN IF tool_name = "get_order_status"
             THEN "I couldn't find that order number. Could you verify the order number or provide the email address used for the order?"
             ELSE "I couldn't find information about that. Let me connect you with our support team."
        ELSE IF error_type = "auth"
        THEN "I'm experiencing an authentication issue. Let me connect you with our support team who can help."
        ELSE IF error_type = "rate_limit"
        THEN "We're experiencing high traffic right now. Please give me a moment and I'll try again."
        ELSE IF tool_name = "get_order_status"
        THEN "I'm unable to retrieve your order details at the moment. Let me connect you with our support team."
        ELSE "I want to give you accurate information. Let me connect you with our support team."

\* a ToolRegistry object: its retry statistics
ToolRegistry ==
    [retry_stats |-> [total_executions |-> 0, successful_executions |-> 0,
                      failed_executions |-> 0, retries |-> 0]]

\* The while loop of execute_with_retry.  outcomes[i] is what the tool does at
\* its i-th call.  `attempts` counts the execute_tool calls made so far.
RECURSIVE RetryLoop(_, _, _, _, _, _, _, _)
RetryLoop(self, tool_name, max_retries, kwargs, outcomes, retries, attempts, last_error) ==
    IF ~ (retries <= max_retries)
    THEN [self |-> [self EXCEPT !.retry_stats.failed_executions = @ + 1],
          result |-> [success |-> FALSE, data |-> None, error |-> last_error,
                      retries |-> retries,
                      fallback_message |-> _build_fallback_message(tool_name, last_error)],
          attempts |-> attempts]
    ELSE LET result == execute_tool(tool_name, kwargs, outcomes[attempts + 1])
         IN  IF result.success
             THEN [self |-> [self EXCEPT !.retry_stats.successful_executions = @ + 1],
                   result |-> [success |-> TRUE, data |-> result.data, error |-> None,
                               retries |-> retries],
                   attempts |-> attempts + 1]
             ELSE IF _is_retryable_error(ErrorClassOf(result.error)) /\ retries < max_retries
             THEN RetryLoop([self EXCEPT !.retry_stats.retries = @ + 1],
                            tool_name, max_retries, kwargs, outcomes,
                            retries + 1, attempts + 1, result.error)
             ELSE [self |-> [self EXCEPT !.retry_stats.failed_executions = @ + 1],
                   result |-> [success |-> FALSE, data |-> None, error |-> result.error,
                               retries |-> retries,
                               fallback_message |->
                                   _build_fallback_message(tool_name, result.error)],
                   attempts |-> attempts + 1]

execute_with_retry(self, tool_name, max_retries, kwargs, outcomes) ==
    RetryLoop([self EXCEPT !.retry_stats.total_executions = @ + 1],
              tool_name, max_retries, kwargs, outcomes, 0, 0, None)

(***************************************************************************)
(* ContextResolver                                                         *)
(***************************************************************************)
\* `response` is the text of the backend: [json |-> TRUE, obj |-> dict] when it
\* is (possibly fenced) JSON, [json |-> FALSE, text |-> text] otherwise.
\* Confidences are in tenths.
_parse_llm_response(response) ==
    IF response.json
    THEN LET parsed == response.obj
         IN  [about_current_topic |->
                  IF Has(parsed, "about_current_topic") THEN parsed["about_current_topic"]
                  ELSE FALSE,
              confidence |-> IF Has(parsed, "confidence") THEN parsed["confidence"] ELSE 5,
              ambiguous |-> IF Has(parsed, "ambiguous") THEN parsed["ambiguous"] ELSE FALSE,
              suggested_action |->
                  IF Has(parsed, "suggested_action") THEN parsed["suggested_action"]
                  ELSE "clarify",
              reasoning |-> IF Has(parsed, "reasoning") THEN parsed["reasoning"] ELSE ""]
    ELSE LET response_lower == Lower(response.text)
         IN  [about_current_topic |->
                  \E word \in {"yes", "true", "about", "related"} :
                      Contains(word, response_lower),
              confidence |-> 6,
              ambiguous |-> TRUE,
              suggested_action |-> "clarify",
              reasoning |-> "Fallback parsing"]

\* `llm` is the remote call: [raised |-> TRUE] or [raised |-> FALSE, response |-> ...]
resolve_context(current_message, active_topic, llm) ==
    IF active_topic = NoDict
    THEN [about_current_topic |-> FALSE, confidence |-> 0, ambiguous |-> FALSE,
          suggested_action |-> "new_topic"]
    ELSE IF llm.raised
    THEN [about_current_topic |-> TRUE, confidence |-> 5, ambiguous |-> TRUE,
          suggested_action |-> "clarify"]
    ELSE _parse_llm_response(llm.response)

(***************************************************************************)
(* LLMResponseComposer                                                     *)
(***************************************************************************)
_contains_hallucination(response, facts) ==
    LET response_lower == Lower(response)
    IN  \E i \in 1..Len(hallucination_phrases) :
            Contains(hallucination_phrases[i], response_lower)

_safe_fallback_response(scenario, facts) ==
    LET order_id == IF Has(facts, "order_id") THEN facts["order_id"] ELSE "your order"
    IN  CASE scenario = "delay_explanation" ->
               "I understand you're asking about the delivery timeline for " \o order_id
               \o ". Let me connect you with our support team who can provide detailed information and help resolve any concerns."
          [] scenario = "cancellation_request" ->
               "I'd like to help with your cancellation request for " \o order_id
               \o ". Let me connect you with our team who can review the order status and discuss your options."
          [] scenario = "order_status_simple" ->
               "I have information about " \o order_id
               \o ". Let me get you to someone who can share the full details."
          [] OTHER ->
               "I want to make sure I give you accurate information. Let me connect you with our support team who can help you right away."

\* variant: a failed call leaves compose_response as an exception
compose_response_surfacing(scenario, facts, constraints, emotion, llm) ==
    IF llm.raised
    THEN [raised |-> TRUE, text |-> None]
    ELSE IF llm.content = None
    THEN [raised |-> FALSE, text |-> _safe_fallback_response(scenario, facts)]
    ELSE IF _contains_hallucination(llm.content, facts)
    THEN [raised |-> FALSE, text |-> _safe_fallback_response(scenario, facts)]
    ELSE [raised |-> FALSE, text |-> llm.content]

\* `llm` is the chat-completion call: [raised |-> TRUE] or
\* [raised |-> FALSE, content |-> text or None].  The result says whether an
\* exception leaves compose_response and, if not, the text it returns.
compose_response(scenario, facts, constraints, emotion, llm) ==
    IF llm.raised
    THEN [raised |-> FALSE, text |-> _safe_fallback_response(scenario, facts)]
    ELSE IF llm.content = None
    THEN \* response.lower() on None raises inside the try block
         [raised |-> FALSE, text |-> _safe_fallback_response(scenario, facts)]
    ELSE IF _contains_hallucination(llm.content, facts)
    THEN [raised |-> FALSE, text |-> _safe_fallback_response(scenario, facts)]
    ELSE [raised |-> FALSE, text |-> llm.content]

(***************************************************************************)
(* ErrorHandler                                                            *)
(***************************************************************************)
ErrorHandler == [error_counts |-> [llm_failures |-> 0]]

\* seconds
_calculate_backoff(retry_count) == 2 ^ retry_count

_build_llm_fallback(error_type) ==
    IF error_type = "RateLimitError"
    THEN "I'm experiencing high traffic right now. Please bear with me for a moment."
    ELSE IF error_type \in {"APITimeoutError", "APIConnectionError"}
    THEN "I'm having a connection issue. Let me try that again."
    ELSE "I'm here to help! Could you please rephrase your question?"

\* error_type is the class name of the exception
handle_llm_failure(self, error_type, retry_count) ==
    LET retry == /\ error_type \in {"RateLimitError", "APITimeoutError",
                                     "APIConnectionError", "InternalServerError"}
                 /\ retry_count < 3
    IN  [self |-> [self EXCEPT !.error_counts.llm_failures = @ + 1],
         result |-> [retry |-> retry,
                     wait_time |-> IF retry THEN _calculate_backoff(retry_count) ELSE 0,
                     fallback_response |-> _build_llm_fallback(error_type),
                     max_retries_reached |-> retry_count >= 3,
                     retry_count |-> retry_count]]

_build_invalid_input_response(input_type, value, context) ==
    CASE input_type = "empty" ->
           "I didn't receive your message. Could you please send it again?"
      [] input_type = "too_long" ->
           "That's a lot of information! Could you break it down into smaller questions so I can help you better?"
      [] input_type = "gibberish" ->
           "I'm having trouble understanding. Could you rephrase that for me?"
      [] input_type = "ambiguous" ->
           "I want to make sure I understand correctly. Could you provide a bit more detail?"
      [] input_type = "invalid_order" ->
           "I couldn't find that order number. Could you verify the order number or provide the email address used for the order?"
      [] OTHER ->
           "I'm here to help! Could you provide more details about what you need?"

(***************************************************************************)
(* ActiveTopic and the topic slot of ConversationContext                   *)
(***************************************************************************)
TopicTypes == { "NONE", "ORDER", "POLICY", "GENERAL" }
TopicConfidences == { "EXPLICIT", "INFERRED", "NONE" }

\* variant: a topic without confidence is accepted
ActiveTopic_any_confidence(topic_type, entity_id, confidence, reason) ==
    IF topic_type = "NONE" /\ entity_id # None
    THEN [raised |-> TRUE, error |-> "NONE topic cannot have entity_id"]
    ELSE IF topic_type = "NONE" /\ confidence # "NONE"
    THEN [raised |-> TRUE, error |-> "NONE topic must have NONE confidence"]
    ELSE [raised |-> FALSE,
          value |-> [topic_type |-> topic_type, entity_id |-> entity_id,
                     confidence |-> confidence, reason |-> reason]]

\* the dataclass constructor with __post_init__: the new value, or the
\* ValueError raised; established_at is left out
ActiveTopic(topic_type, entity_id, confidence, reason) ==
    IF topic_type = "NONE" /\ entity_id # None
    THEN [raised |-> TRUE, error |-> "NONE topic cannot have entity_id"]
    ELSE IF topic_type = "NONE" /\ confidence # "NONE"
    THEN [raised |-> TRUE, error |-> "NONE topic must have NONE confidence"]
    ELSE IF topic_type # "NONE" /\ confidence = "NONE"
    THEN [raised |-> TRUE, error |-> "Non-NONE topic must have confidence"]
    ELSE [raised |-> FALSE,
          value |-> [topic_type |-> topic_type, entity_id |-> entity_id,
                     confidence |-> confidence, reason |-> reason]]

\* the topic slot of a new ConversationContext
ConversationContext == [active_topic |-> NoDict]

set_active_topic(self, topic_type, confidence, entity_id, reason) ==
    LET made == ActiveTopic(topic_type, entity_id, confidence, reason)
    IN  IF made.raised
        THEN [self |-> self, raised |-> TRUE]
        ELSE [self |-> [self EXCEPT !.active_topic = made.value], raised |-> FALSE]

clear_topic(self) == [self EXCEPT !.active_topic = NoDict]

(***************************************************************************)
(* ConversationOrchestrator                                                *)
(***************************************************************************)
\* the brand registry entry of the orchestrator's brand (read-only)
BrandConfig(brand_id) ==
    [name |-> IF brand_id = "fashionhub" THEN "FashionHub" ELSE brand_id,
     voice |-> [tone |-> "friendly"]]

\* variant: one more emotion is kept
EMOTION_HISTORY_LIMIT == 10

\* re.search(r'\b(\d{lo,hi})\b', message): a run of lo..hi digits with a word
\* boundary on each side; None when there is no match
DigitTokenAt(message, i, n) ==
    /\ i + n - 1 <= Len(message)
    /\ \A j \in i..(i + n - 1) : IsDigit(CharAt(message, j))
    /\ (i = 1 \/ ~ IsWordChar(CharAt(message, i - 1)))
    /\ (i + n - 1 = Len(message) \/ ~ IsWordChar(CharAt(message, i + n)))

SearchDigits(message, lo, hi) ==
    LET starts == {i \in 1..Len(message) : \E n \in lo..hi : DigitTokenAt(message, i, n)}
    IN  IF starts = {}
        THEN None
        ELSE LET i == CHOOSE a \in starts : \A b \in starts : a <= b
                 n == CHOOSE k \in lo..hi : DigitTokenAt(message, i, k)
             IN  SubSeq(message, i, i + n - 1)

\* __init__ after a valid brand id; the tool registry is available
ConversationOrchestrator(brand_id) ==
    [brand_id |-> brand_id,
     brand_config |-> BrandConfig(brand_id),
     context |-> [memory |-> ConversationMemory(DEFAULT_MAX_HISTORY, DEFAULT_MAX_TOKENS),
                  metadata |-> [last_emotion |-> "neutral"]],
     escalation_manager |-> [escalation_history |-> << >>],
     active_topic |-> NoDict,
     emotion_history |-> << >>,
     tools_available |-> TRUE,
     total_messages_processed |-> 0,
     emotions_detected |-> [frustrated |-> 0, confused |-> 0, urgent |-> 0,
                            positive |-> 0, neutral |-> 0],
     tool_stats |-> [tool_calls |-> 0, tool_successes |-> 0, tool_failures |-> 0,
                     order_queries |-> 0, knowledge_queries |-> 0],
     context_stats |-> [context_resolutions |-> 0, context_maintained |-> 0,
                        topic_switches |-> 0],
     escalation_stats |-> [escalations_triggered |-> 0, escalations_prevented |-> 0,
                           tier1_escalations |-> 0, tier2_escalations |-> 0]]

\* the searches of the known messages, computed once
DigitPatterns == {<< 4, 5 >>, << 6, 6 >>}

DigitsTable ==
    [message \in TurnCorpus |->
        [pattern \in DigitPatterns |-> SearchDigits(message, pattern[1], pattern[2])]]

DigitsIn(message, lo, hi) ==
    IF message \in DOMAIN DigitsTable /\ << lo, hi >> \in DigitPatterns
    THEN DigitsTable[message][<< lo, hi >>]
    ELSE SearchDigits(message, lo, hi)

_extract_tool_params(self, message, tool_name) ==
    IF /\ self.active_topic # NoDict
       /\ self.active_topic.entity_id \notin {None, ""}
       /\ tool_name = "get_order_status"
       /\ self.active_topic.topic_type = "ORDER"
    THEN ("order_id" :> self.active_topic.entity_id)
    ELSE IF tool_name = "get_order_status"
    THEN LET match == DigitsIn(message, 4, 5)
         IN  IF match # None THEN ("order_id" :> match) ELSE NoDict
    ELSE IF tool_name = "check_shipping_eligibility"
    THEN LET match == DigitsIn(message, 6, 6)
         IN  IF match # None THEN ("pincode" :> match) ELSE NoDict
    ELSE IF tool_name = "search_knowledge"
    THEN ("query" :> message)
    ELSE NoDict

\* facts.get(key) is truthy, for a key that holds a text (tool data) or None
TruthyText(facts, key) == Has(facts, key) /\ facts[key] \notin {None, ""}

\* variant: the emotion is looked at before the tool result
_determine_scenario_emotion_first(emotion, facts, tool_used) ==
    IF emotion = "frustrated"
    THEN "frustrated_customer"
    ELSE IF tool_used = "get_order_status" /\ Has(facts, "order_data")
    THEN "order_status_query"
    ELSE IF tool_used = "search_knowledge" /\ Has(facts, "knowledge_data")
    THEN "policy_question"
    ELSE IF tool_used = "check_shipping_eligibility" /\ Has(facts, "shipping_data")
    THEN "shipping_inquiry"
    ELSE "general_query"

_determine_scenario(emotion, facts, tool_used) ==
    IF tool_used = "get_order_status" /\ TruthyText(facts, "order_data")
    THEN IF emotion = "frustrated" THEN "frustrated_customer_with_order"
         ELSE "order_status_query"
    ELSE IF tool_used = "search_knowledge" /\ TruthyText(facts, "knowledge_data")
    THEN "policy_question"
    ELSE IF tool_used = "check_shipping_eligibility" /\ TruthyText(facts, "shipping_data")
    THEN "shipping_inquiry"
    ELSE IF emotion = "frustrated"
    THEN "frustrated_customer"
    ELSE "general_query"

\* One call of process_message(user_message, facts).  resolver_llm, tool_outcome
\* and llm are what the three remote calls do if the turn makes them.  The steps
\* of the method work on one record `t`: the orchestrator object (self), the
\* arguments, the outcomes of the remote calls, and the method's local variables.
TurnStart(self, user_message, facts_in, constraints, resolver_llm, tool_outcome, llm) ==
    [self |-> self, user_message |-> user_message, facts |-> facts_in,
     constraints |-> constraints, resolver_llm |-> resolver_llm,
     tool_outcome |-> tool_outcome, llm |-> llm,
     emotion |-> "neutral", intensity |-> 0, escalation_check |-> NoDict,
     tool_used |-> None, tool_success |-> FALSE, tool_attempts |-> 0,
     context_result |-> NoDict, topic_resolved |-> NoDict, tool_params |-> NoDict,
     scenario |-> "", response |-> None, raised |-> FALSE]

\* as TrackEmotionWith below, but the history is kept one entry longer
TrackEmotionWith_keep_eleven(t, detected) ==
    LET appended == Append(t.self.emotion_history,
                           [emotion |-> detected.emotion, intensity |-> detected.intensity])
    IN  [t EXCEPT
           !.emotion = detected.emotion,
           !.intensity = detected.intensity,
           !.self.context.memory = add_message(@, "user", t.user_message),
           !.self.context.metadata.last_emotion = detected.emotion,
           !.self.emotions_detected =
               IF detected.emotion \in DOMAIN @
               THEN [@ EXCEPT ![detected.emotion] = @ + 1] ELSE @,
           !.self.emotion_history =
               IF Len(appended) > EMOTION_HISTORY_LIMIT + 1
               THEN LastN(appended, EMOTION_HISTORY_LIMIT + 1) ELSE appended,
           !.facts = Put(Put(@, "brand_name", t.self.brand_config.name),
                         "brand_voice", t.self.brand_config.voice)]

\* add to context, detect emotion, count it, track the emotion history
TrackEmotionWith(t, detected) ==
    LET appended == Append(t.self.emotion_history,
                           [emotion |-> detected.emotion, intensity |-> detected.intensity])
    IN  [t EXCEPT
           !.emotion = detected.emotion,
           !.intensity = detected.intensity,
           !.self.context.memory = add_message(@, "user", t.user_message),
           !.self.context.metadata.last_emotion = detected.emotion,
           !.self.emotions_detected =
               IF detected.emotion \in DOMAIN @
               THEN [@ EXCEPT ![detected.emotion] = @ + 1] ELSE @,
           !.self.emotion_history =
               IF Len(appended) > EMOTION_HISTORY_LIMIT
               THEN LastN(appended, EMOTION_HISTORY_LIMIT) ELSE appended,
           !.facts = Put(Put(@, "brand_name", t.self.brand_config.name),
                         "brand_voice", t.self.brand_config.voice)]

TrackEmotion(t) == TrackEmotionWith(t, EmotionOf(t.user_message))

\* the escalation check, its statistics, the log and the facts it adds
CheckEscalationWith(t, call) ==
    IF call.result.should_escalate
    THEN [t EXCEPT
            !.escalation_check = call.result,
            !.self.escalation_manager = log_escalation(call.self, call.result),
            !.self.escalation_stats =
                [@ EXCEPT !.escalations_triggered = @ + 1,
                          !.tier1_escalations =
                              IF call.result.escalation_tier = 1 THEN @ + 1 ELSE @,
                          !.tier2_escalations =
                              IF call.result.escalation_tier = 2 THEN @ + 1 ELSE @],
            !.facts = Put(@, "escalation", call.result)]
    ELSE IF call.result.prevent_escalation
    THEN [t EXCEPT
            !.escalation_check = call.result,
            !.self.escalation_manager = call.self,
            !.self.escalation_stats.escalations_prevented = @ + 1,
            !.facts = Put(@, "empathy_needed", TRUE)]
    ELSE [t EXCEPT !.escalation_check = call.result,
                   !.self.escalation_manager = call.self]

CheckEscalation(t) ==
    CheckEscalationWith(t,
        should_escalate(t.self.escalation_manager,
                        [message |-> t.user_message, emotion |-> t.emotion,
                         emotion_history |-> t.self.emotion_history, confidence |-> 10,
                         scenario |-> "",
                         tool_failures |-> t.self.tool_stats.tool_failures]))

\* variant: the resolver's confidence is not looked at
ResolveTopicWith_about_only(t, context_result) ==
    IF context_result.about_current_topic
    THEN [t EXCEPT
            !.context_result = context_result,
            !.self.context_stats.context_resolutions = @ + 1,
            !.self.context_stats.context_maintained = @ + 1,
            !.topic_resolved = t.self.active_topic,
            !.facts = Put(Put(@, "active_topic", t.self.active_topic),
                          "context_confidence", context_result.confidence)]
    ELSE [t EXCEPT
            !.context_result = context_result,
            !.self.context_stats.context_resolutions = @ + 1,
            !.self.context_stats.topic_switches = @ + 1,
            !.self.active_topic = NoDict]

\* context resolution, when a topic is active
ResolveTopicWith(t, context_result) ==
    IF context_result.about_current_topic /\ context_result.confidence > 7
    THEN [t EXCEPT
            !.context_result = context_result,
            !.self.context_stats.context_resolutions = @ + 1,
            !.self.context_stats.context_maintained = @ + 1,
            !.topic_resolved = t.self.active_topic,
            !.facts = Put(Put(@, "active_topic", t.self.active_topic),
                          "context_confidence", context_result.confidence)]
    ELSE [t EXCEPT
            !.context_result = context_result,
            !.self.context_stats.context_resolutions = @ + 1,
            !.self.context_stats.topic_switches = @ + 1,
            !.self.active_topic = NoDict]

ResolveTopic(t) ==
    IF t.self.active_topic = NoDict
    THEN t
    ELSE ResolveTopicWith(t, resolve_context(t.user_message, t.self.active_topic,
                                             t.resolver_llm))

\* variant: only a mandatory escalation counts
HasEscalation_tier1(facts) ==
    /\ Has(facts, "escalation")
    /\ facts["escalation"] # NoDict
    /\ facts["escalation"].escalation_tier = 1

\* facts.get('escalation') is truthy
HasEscalation(facts) == Has(facts, "escalation") /\ facts["escalation"] # NoDict

\* the topic a tool selection sets before the tool runs
TopicAfterSelection(t, selected_tool, tool_params) ==
    IF selected_tool = "get_order_status"
       /\ Has(tool_params, "order_id") /\ tool_params["order_id"] # ""
    THEN [topic_type |-> "ORDER", entity_id |-> tool_params["order_id"],
          context |-> "User asked about order status"]
    ELSE IF selected_tool = "search_knowledge"
    THEN [topic_type |-> "POLICY", entity_id |-> "general",
          context |-> t.user_message]
    ELSE t.self.active_topic

FactKeyOf(selected_tool) ==
    CASE selected_tool = "get_order_status" -> "order_data"
      [] selected_tool = "search_knowledge" -> "knowledge_data"
      [] selected_tool = "check_shipping_eligibility" -> "shipping_data"
      [] OTHER -> "product_data"

\* execute_tool was called once and returned tool_result
RecordToolResult(t, selected_tool, tool_params, tool_result) ==
    IF tool_result.success
    THEN [t EXCEPT
            !.self.active_topic = TopicAfterSelection(t, selected_tool, tool_params),
            !.self.tool_stats.tool_calls = @ + 1,
            !.self.tool_stats.tool_successes = @ + 1,
            !.self.tool_stats.order_queries =
                IF selected_tool = "get_order_status" THEN @ + 1 ELSE @,
            !.self.tool_stats.knowledge_queries =
                IF selected_tool = "search_knowledge" THEN @ + 1 ELSE @,
            !.tool_used = selected_tool,
            !.tool_params = tool_params,
            !.tool_attempts = 1,
            !.tool_success = TRUE,
            !.facts = Put(@, FactKeyOf(selected_tool), tool_result.data)]
    ELSE [t EXCEPT
            !.self.active_topic = TopicAfterSelection(t, selected_tool, tool_params),
            !.self.tool_stats.tool_calls = @ + 1,
            !.self.tool_stats.tool_failures = @ + 1,
            !.tool_used = selected_tool,
            !.tool_params = tool_params,
            !.tool_attempts = 1,
            !.facts = Put(@, "tool_error", tool_result.error)]

\* a tool was selected and its parameters extracted
RunTool(t, selected_tool, tool_params) ==
    IF tool_params = NoDict
    THEN [t EXCEPT !.self.tool_stats.tool_calls = @ + 1]
    ELSE RecordToolResult(t, selected_tool, tool_params,
                          execute_tool(selected_tool, tool_params, t.tool_outcome))

RouteToolTo(t, selected_tool) ==
    IF selected_tool = None
    THEN t
    ELSE RunTool(t, selected_tool,
                 _extract_tool_params(t.self, t.user_message, selected_tool))

\* tool selection and execution, skipped on an escalating turn
RouteTool(t) ==
    IF t.self.tools_available /\ ~ HasEscalation(t.facts)
    THEN RouteToolTo(t, ToolFor(t.user_message))
    ELSE t

\* scenario, composition, escalation override
ComposeWith(t, composed) ==
    IF composed.raised
    THEN [t EXCEPT !.raised = TRUE]
    ELSE [t EXCEPT
            !.response =
                IF HasEscalation(t.facts)
                   /\ t.facts["escalation"].suggested_message \notin {None, ""}
                THEN t.facts["escalation"].suggested_message
                ELSE composed.text]

ComposeFor(t, scenario) ==
    ComposeWith([t EXCEPT !.scenario = scenario],
                compose_response(scenario, t.facts, t.constraints, t.emotion, t.llm))

Compose(t) ==
    ComposeFor(t, IF HasEscalation(t.facts) THEN "escalation_needed"
                  ELSE _determine_scenario(t.emotion, t.facts, t.tool_used))

\* variant: the reply of an escalated turn is not added to the context
RecordReply_unless_escalated(t) ==
    IF t.raised \/ HasEscalation(t.facts)
    THEN t
    ELSE [t EXCEPT
            !.self.context.memory = add_message(@, "assistant", t.response),
            !.self.total_messages_processed = @ + 1]

\* add the reply to the context, count the turn
RecordReply(t) ==
    IF t.raised
    THEN t
    ELSE [t EXCEPT
            !.self.context.memory = add_message(@, "assistant", t.response),
            !.self.total_messages_processed = @ + 1]

\* what the call yields: the object after the call, whether an exception left
\* it and, if not, the returned (response, metadata); the verdict, the facts,
\* the topic left by the context resolution and the parameters passed to the
\* tool are kept for inspection
TurnResult(t) ==
    [self |-> t.self,
     raised |-> t.raised,
     context_result |-> t.context_result,
     topic_resolved |-> t.topic_resolved,
     tool_used |-> t.tool_used,
     tool_success |-> t.tool_success,
     tool_attempts |-> t.tool_attempts,
     tool_params |-> t.tool_params,
     escalation_check |-> t.escalation_check,
     response |-> t.response,
     metadata |->
         IF t.raised THEN NoDict
         ELSE [brand_id |-> t.self.brand_id,
               brand_name |-> t.self.brand_config.name,
               emotion |-> t.emotion,
               intensity |-> t.intensity,
               scenario |-> t.scenario,
               tool_used |-> t.tool_used,
               tool_success |-> t.tool_success,
               active_topic |-> t.self.active_topic,
               context_maintained |->
                   (t.self.active_topic # NoDict /\ Has(t.facts, "context_confidence")
                    /\ t.facts["context_confidence"] # 0),
               escalation |-> IF Has(t.facts, "escalation") THEN t.facts["escalation"]
                              ELSE NoDict,
               message_count |-> Len(t.self.context.memory.messages)],
     facts |-> t.facts]

process_message(self, user_message, facts_in, constraints, resolver_llm, tool_outcome, llm) ==
    TurnResult(RecordReply(Compose(RouteTool(ResolveTopic(CheckEscalation(TrackEmotion(
        TurnStart(self, user_message, facts_in, constraints,
                  resolver_llm, tool_outcome, llm))))))))

\* variant: the tool statistics survive the reset
clear_conversation_keep_tool_stats(self) ==
    [self EXCEPT !.context = [memory |-> memory_clear(@.memory),
                              metadata |-> [last_emotion |-> "neutral"]],
                 !.active_topic = NoDict,
                 !.emotion_history = << >>,
                 !.total_messages_processed = 0,
                 !.emotions_detected = [k \in DOMAIN @ |-> 0],
                 !.context_stats = [k \in DOMAIN @ |-> 0],
                 !.escalation_stats = [k \in DOMAIN @ |-> 0]]

clear_conversation(self) ==
    [self EXCEPT !.context = [memory |-> memory_clear(@.memory),
                              metadata |-> [last_emotion |-> "neutral"]],
                 !.active_topic = NoDict,
                 !.emotion_history = << >>,
                 !.total_messages_processed = 0,
                 !.emotions_detected = [k \in DOMAIN @ |-> 0],
                 !.tool_stats = [k \in DOMAIN @ |-> 0],
                 !.context_stats = [k \in DOMAIN @ |-> 0],
                 !.escalation_stats = [k \in DOMAIN @ |-> 0]]

(***************************************************************************)
(* State                                                                   *)
(***************************************************************************)
VARIABLES
    orch,       \* the ConversationOrchestrator object
    last,       \* what the latest process_message call of the conversation returned
    manager,    \* a stand-alone EscalationManager object
    esc_ctx,    \* the context passed to manager.should_escalate
    esc_out,    \* the verdict of the latest manager.should_escalate call
    esc_log,    \* the length of the manager's log when that call was made
    esc_calls,  \* number of manager.should_escalate calls made
    memory,     \* a stand-alone ConversationMemory object
    appended,   \* every message added to memory since its last clear, in order
    router,     \* a message and the active topic of the orchestrator that routes it
    routed,     \* what select_tool and _extract_tool_params returned for it
    compose_in,     \* the arguments of a compose_response call and what the backend does
    composed,       \* what that compose_response call returned
    error_handler,  \* a stand-alone ErrorHandler object
    llm_failure,    \* what its handle_llm_failure returned for the failed call
    retry_in,       \* the arguments of an execute_with_retry call and what the tool does
    registry,       \* the ToolRegistry object of that call
    retried,        \* what that execute_with_retry call returned
    conv_context,   \* a stand-alone ConversationContext object
    topic_call,     \* the latest ActiveTopic construction or set_active_topic call
    tenants         \* one ConversationOrchestrator per brand, with its running turn

vars ==
    << orch, last, manager, esc_ctx, esc_out, esc_log, esc_calls, memory, appended,
       router, routed, compose_in, composed, error_handler, llm_failure,
       retry_in, registry, retried, conv_context, topic_call, tenants >>

esc_vars == << manager, esc_ctx, esc_out, esc_log, esc_calls >>

mem_vars == << memory, appended >>

router_vars == << router, routed >>

compose_vars == << compose_in, composed, error_handler, llm_failure >>

retry_vars == << retry_in, registry, retried >>

topic_vars == << conv_context, topic_call >>

tenant_vars == << tenants >>

(***************************************************************************)
(* Bounds                                                                  *)
(***************************************************************************)
MaxTurns == 2          \* turns per conversation
MaxLog == 2            \* logged escalations after which no new conversation starts
MaxConvTurns == 4      \* turns of a long conversation
MaxHistory == 3        \* length of an emotion history passed to should_escalate
MaxFailures == 2       \* tool-failure count passed to should_escalate
MaxCalls == 2          \* should_escalate calls on the stand-alone manager
MaxManagerLog == 1     \* log_escalation calls on the stand-alone manager
MaxAppends == 4        \* add_message calls on the stand-alone memory between clears
MaxMemHistory == 4     \* largest max_history of the stand-alone memory
MaxMemTokens == 5      \* largest max_tokens of the stand-alone memory
MaxLLMCalls == 2       \* chat-completion outcomes prepared for one compose_response call
MaxRetryCount == 3     \* largest retry_count passed to handle_llm_failure
MaxRetries == 2        \* largest max_retries passed to execute_with_retry
MaxScenarioTurns == 2  \* turns of a conversation over the scenario messages
MaxHistoryTurns == 11  \* turns of a conversation that outgrows the emotion history
MaxTenantTurns == 2    \* turns of each brand's conversation when brands run side by side

NoTurn == NoDict

(***************************************************************************)
(* The orchestrator driven by its caller                                   *)
(***************************************************************************)
EscIdle ==
    /\ manager = [escalation_history |-> << >>]
    /\ esc_ctx = NoDict
    /\ esc_out = NoDict
    /\ esc_log = 0
    /\ esc_calls = 0

MemIdle ==
    /\ memory = ConversationMemory(DEFAULT_MAX_HISTORY, DEFAULT_MAX_TOKENS)
    /\ appended = << >>

RouterIdle ==
    /\ router = NoDict
    /\ routed = NoDict

ComposeIdle ==
    /\ compose_in = NoDict
    /\ composed = NoDict
    /\ error_handler = ErrorHandler
    /\ llm_failure = NoDict

RetryIdle ==
    /\ retry_in = NoDict
    /\ registry = ToolRegistry
    /\ retried = NoDict

TopicIdle ==
    /\ conv_context = ConversationContext
    /\ topic_call = NoDict

TenantIdle == tenants = NoDict

Init ==
    /\ orch = ConversationOrchestrator("fashionhub")
    /\ last = NoTurn
    /\ EscIdle
    /\ MemIdle
    /\ RouterIdle
    /\ ComposeIdle
    /\ RetryIdle
    /\ TopicIdle
    /\ TenantIdle

CallsMade == IF last = NoTurn THEN 0 ELSE last.calls

\* The caller sends user_message with the prior facts `facts`; each remote call the turn
\* makes does what the drawn outcome says.  `last` keeps what the call returned,
\* what the backend did, the verdict and the tool success of the turn before and
\* the active topic the turn started with.
TurnWith(messages, resolver_outcomes, tool_outcomes, llm_outcomes, facts) ==
    \E user_message \in messages :
    \E resolver_llm \in IF orch.active_topic = NoDict THEN {NoCall} ELSE resolver_outcomes :
    \E tool_outcome \in IF ToolFor(user_message) = None THEN {NoCall} ELSE tool_outcomes :
    \E llm \in llm_outcomes :
       LET result == process_message(orch, user_message, facts, << >>,
                                     resolver_llm, tool_outcome, llm)
       IN  /\ orch' = result.self
           /\ last' = [calls |-> CallsMade + 1,
                       user_message |-> user_message,
                       llm |-> llm,
                       raised |-> result.raised,
                       response |-> result.response,
                       metadata |-> result.metadata,
                       verdict |-> result.escalation_check,
                       topic_before |-> orch.active_topic,
                       resolver_llm |-> resolver_llm,
                       tool_outcome |-> tool_outcome,
                       facts_in |-> facts,
                       context_result |-> result.context_result,
                       topic_resolved |-> result.topic_resolved,
                       tool_used |-> result.tool_used,
                       tool_success |-> result.tool_success,
                       tool_attempts |-> result.tool_attempts,
                       tool_error |-> IF Has(result.facts, "tool_error")
                                      THEN result.facts["tool_error"] ELSE None,
                       tool_params |-> result.tool_params,
                       facts |-> result.facts,
                       failures_before |-> orch.tool_stats.tool_failures,
                       emotions |-> Append(IF last = NoTurn THEN << >> ELSE last.emotions,
                                           EmotionOf(user_message).emotion),
                       repeats |-> IF last # NoTurn /\ last.user_message = user_message
                                   THEN last.repeats + 1 ELSE 1,
                       previous_tool_success |->
                           IF last = NoTurn THEN FALSE ELSE last.tool_success,
                       previous_verdict |-> IF last = NoTurn THEN NoDict ELSE last.verdict]

\* the caller passes no prior facts
Turn(messages, resolver_outcomes, tool_outcomes, llm_outcomes) ==
    TurnWith(messages, resolver_outcomes, tool_outcomes, llm_outcomes, NoDict)

ProcessMessage ==
    /\ CallsMade < MaxTurns
    /\ Turn(Corpus, ResolverOutcomes, ToolOutcomes, LLMOutcomes)
    /\ UNCHANGED << esc_vars, mem_vars, router_vars, compose_vars, retry_vars, topic_vars, tenant_vars >>

ClearConversation ==
    /\ last # NoTurn
    /\ Len(orch.escalation_manager.escalation_history) < MaxLog
    /\ orch' = clear_conversation(orch)
    /\ last' = NoTurn
    /\ UNCHANGED << esc_vars, mem_vars, router_vars, compose_vars, retry_vars, topic_vars, tenant_vars >>

Next == ProcessMessage \/ ClearConversation

Spec == Init /\ [][Next]_vars

(***************************************************************************)
(* A long conversation: the backend answers, the resolver call fails, the  *)
(* order tool succeeds or times out                                        *)
(***************************************************************************)
ConversationTurn ==
    /\ CallsMade < MaxConvTurns
    /\ Turn(ConvCorpus, {[raised |-> TRUE]}, ToolOutcomes,
            {[raised |-> FALSE, content |-> "Happy to help with that."]})
    /\ UNCHANGED << esc_vars, mem_vars, router_vars, compose_vars, retry_vars, topic_vars, tenant_vars >>

NextConv == ConversationTurn

SpecConv == Init /\ [][NextConv]_vars

(***************************************************************************)
(* One orchestrator per brand, each driven by its own thread: a thread     *)
(* runs process_message statement group by statement group, and the        *)
(* threads interleave at every group                                       *)
(***************************************************************************)
Brands == { "fashionhub", "techgear" }

TenantCorpus == { "Where is order 12345?", "this is ridiculous and unacceptable" }

\* the statement groups of process_message, in order
TurnSteps == 6

StepOf(pc, t) ==
    CASE pc = 1 -> TrackEmotion(t)
      [] pc = 2 -> CheckEscalation(t)
      [] pc = 3 -> ResolveTopic(t)
      [] pc = 4 -> RouteTool(t)
      [] pc = 5 -> Compose(t)
      [] pc = 6 -> RecordReply(t)

\* variant: the emotion history is one list shared by all instances
TenantsAfterStep_shared_history(all, brand_id, t, pc) ==
    [b \in DOMAIN all |->
        IF b = brand_id
        THEN [all[b] EXCEPT !.t = t, !.pc = pc]
        ELSE [all[b] EXCEPT !.orch.emotion_history = t.self.emotion_history]]

\* every attribute a turn writes is an attribute of its own instance, made in
\* __init__: a step of one brand's turn changes that brand's entry only
TenantsAfterStep(all, brand_id, t, pc) ==
    [all EXCEPT ![brand_id] = [@ EXCEPT !.t = t, !.pc = pc]]

InitTenants ==
    /\ orch = ConversationOrchestrator("fashionhub")
    /\ last = NoTurn
    /\ EscIdle
    /\ MemIdle
    /\ RouterIdle
    /\ ComposeIdle
    /\ RetryIdle
    /\ TopicIdle
    /\ tenants = [b \in Brands |->
                    [orch |-> ConversationOrchestrator(b), t |-> NoDict, pc |-> 0,
                     call |-> NoDict, log |-> << >>]]

\* a brand's thread enters process_message
TenantCall(brand_id) ==
    /\ tenants[brand_id].pc = 0
    /\ Len(tenants[brand_id].log) < MaxTenantTurns
    /\ \E user_message \in TenantCorpus :
       \E resolver_llm \in IF tenants[brand_id].orch.active_topic = NoDict
                            THEN {NoCall} ELSE ResolverOutcomes :
       \E tool_outcome \in IF ToolFor(user_message) = None THEN {NoCall} ELSE ToolOutcomes :
          LET call == [user_message |-> user_message, resolver_llm |-> resolver_llm,
                       tool_outcome |-> tool_outcome,
                       llm |-> [raised |-> FALSE, content |-> "Happy to help with that."]]
              t == TurnStart(tenants[brand_id].orch, user_message, NoDict, << >>,
                             resolver_llm, tool_outcome, call.llm)
          IN  tenants' = [TenantsAfterStep(tenants, brand_id, t, 1)
                            EXCEPT ![brand_id].call = call]
    /\ UNCHANGED << orch, last, esc_vars, mem_vars, router_vars, compose_vars, retry_vars,
                    topic_vars >>

\* the thread runs its next statement group
TenantStep(brand_id) ==
    /\ tenants[brand_id].pc \in 1..(TurnSteps - 1)
    /\ tenants' = TenantsAfterStep(tenants, brand_id,
                                   StepOf(tenants[brand_id].pc, tenants[brand_id].t),
                                   tenants[brand_id].pc + 1)
    /\ UNCHANGED << orch, last, esc_vars, mem_vars, router_vars, compose_vars, retry_vars,
                    topic_vars >>

\* the thread runs the last group and process_message returns
TenantReturn(brand_id) ==
    /\ tenants[brand_id].pc = TurnSteps
    /\ LET done == TenantsAfterStep(tenants, brand_id,
                                    StepOf(TurnSteps, tenants[brand_id].t), 0)
       IN  tenants' = [done EXCEPT
                         ![brand_id].orch = TurnResult(done[brand_id].t).self,
                         ![brand_id].t = NoDict,
                         ![brand_id].log = Append(@, tenants[brand_id].call)]
    /\ UNCHANGED << orch, last, esc_vars, mem_vars, router_vars, compose_vars, retry_vars,
                    topic_vars >>

NextTenants ==
    \E brand_id \in Brands :
        TenantCall(brand_id) \/ TenantStep(brand_id) \/ TenantReturn(brand_id)

SpecTenants == InitTenants /\ [][NextTenants]_vars

(***************************************************************************)
(* ActiveTopic values built directly and through a ConversationContext     *)
(***************************************************************************)
TopicEntities == { None, "12345" }

InitTopic ==
    /\ orch = ConversationOrchestrator("fashionhub")
    /\ last = NoTurn
    /\ EscIdle
    /\ MemIdle
    /\ RouterIdle
    /\ ComposeIdle
    /\ RetryIdle
    /\ TopicIdle
    /\ TenantIdle

ConstructTopic ==
    /\ \E topic_type \in TopicTypes, confidence \in TopicConfidences, entity_id \in TopicEntities :
          topic_call' = [via |-> "ActiveTopic",
                         topic_type |-> topic_type, confidence |-> confidence,
                         entity_id |-> entity_id,
                         made |-> ActiveTopic(topic_type, entity_id, confidence, "user_mentioned"),
                         before |-> conv_context.active_topic]
    /\ UNCHANGED << orch, last, esc_vars, mem_vars, router_vars, compose_vars, retry_vars,
                    conv_context, tenant_vars >>

SetActiveTopic ==
    /\ \E topic_type \in TopicTypes, confidence \in TopicConfidences, entity_id \in TopicEntities :
          LET call == set_active_topic(conv_context, topic_type, confidence, entity_id,
                                       "user_mentioned")
          IN  /\ conv_context' = call.self
              /\ topic_call' = [via |-> "set_active_topic",
                                topic_type |-> topic_type, confidence |-> confidence,
                                entity_id |-> entity_id,
                                made |-> [raised |-> call.raised],
                                before |-> conv_context.active_topic]
    /\ UNCHANGED << orch, last, esc_vars, mem_vars, router_vars, compose_vars, retry_vars,
                    tenant_vars >>

ClearTopic ==
    /\ conv_context.active_topic # NoDict
    /\ conv_context' = clear_topic(conv_context)
    /\ UNCHANGED << orch, last, esc_vars, mem_vars, router_vars, compose_vars, retry_vars,
                    topic_call, tenant_vars >>

NextTopic == ConstructTopic \/ SetActiveTopic \/ ClearTopic

SpecTopic == InitTopic /\ [][NextTopic]_vars

(***************************************************************************)
(* A caller that keeps one facts dictionary and passes it to every turn    *)
(***************************************************************************)
\* the caller's dictionary: empty before the first turn, afterwards as the
\* previous turn left it
CallerFacts == IF last = NoTurn THEN << >> ELSE last.facts

FactsTurn ==
    /\ CallsMade < MaxTurns
    /\ TurnWith(Corpus, ResolverOutcomes, ToolOutcomes, LLMOutcomes, CallerFacts)
    /\ UNCHANGED << esc_vars, mem_vars, router_vars, compose_vars, retry_vars, topic_vars, tenant_vars >>

NextFacts == FactsTurn

SpecFacts == Init /\ [][NextFacts]_vars

(***************************************************************************)
(* A conversation of more turns than the emotion history and the memory    *)
(* hold, over a neutral and a frustrated message; the backend answers      *)
(***************************************************************************)
HistoryCorpus == { "hello there", "this is ridiculous and unacceptable" }

HistoryTurn ==
    /\ CallsMade < MaxHistoryTurns
    /\ Turn(HistoryCorpus, ResolverOutcomes, ToolOutcomes,
            {[raised |-> FALSE, content |-> "Happy to help with that."]})
    /\ UNCHANGED << esc_vars, mem_vars, router_vars, compose_vars, retry_vars, topic_vars, tenant_vars >>

NextHistory == HistoryTurn

SpecHistory == Init /\ [][NextHistory]_vars

(***************************************************************************)
(* Short conversations over one message per row of the scenario table; the *)
(* backend answers                                                         *)
(***************************************************************************)
ScenarioTurn ==
    /\ CallsMade < MaxScenarioTurns
    /\ Turn(ScenarioCorpus, ResolverOutcomes, ToolOutcomes,
            {[raised |-> FALSE, content |-> "Happy to help with that."]})
    /\ UNCHANGED << esc_vars, mem_vars, router_vars, compose_vars, retry_vars, topic_vars, tenant_vars >>

NextScenario == ScenarioTurn

SpecScenario == Init /\ [][NextScenario]_vars

(***************************************************************************)
(* EscalationManager.should_escalate as a function of its context: the     *)
(* context is drawn at the start, then should_escalate and log_escalation  *)
(* are called on one manager                                               *)
(***************************************************************************)
EscEmotions == {"frustrated", "urgent", "neutral"}
HistoryEmotions == {"frustrated", "neutral"}
EscConfidences == {5, 6, 10}

EscHistories ==
    UNION {[1..n -> {[emotion |-> e, intensity |-> 0] : e \in HistoryEmotions}] : n \in 0..MaxHistory}

EscContexts ==
    [message : EscMessages, emotion : EscEmotions, emotion_history : EscHistories,
     confidence : EscConfidences, scenario : {""}, tool_failures : 0..MaxFailures]

InitEsc ==
    /\ orch = ConversationOrchestrator("fashionhub")
    /\ last = NoTurn
    /\ manager = [escalation_history |-> << >>]
    /\ esc_ctx \in EscContexts
    /\ esc_out = NoDict
    /\ esc_log = 0
    /\ esc_calls = 0
    /\ MemIdle
    /\ RouterIdle
    /\ ComposeIdle
    /\ RetryIdle
    /\ TopicIdle
    /\ TenantIdle

ShouldEscalate ==
    /\ esc_calls < MaxCalls
    /\ LET call == should_escalate(manager, esc_ctx)
       IN  /\ manager' = call.self
           /\ esc_out' = call.result
    /\ esc_log' = Len(manager.escalation_history)
    /\ esc_calls' = esc_calls + 1
    /\ UNCHANGED << orch, last, esc_ctx, mem_vars, router_vars, compose_vars, retry_vars, topic_vars, tenant_vars >>

LogEscalation ==
    /\ esc_calls > 0
    /\ Len(manager.escalation_history) < MaxManagerLog
    /\ manager' = log_escalation(manager, esc_out)
    /\ UNCHANGED << orch, last, esc_ctx, esc_out, esc_log, esc_calls, mem_vars, router_vars, compose_vars, retry_vars, topic_vars, tenant_vars >>

NextEsc == ShouldEscalate \/ LogEscalation

SpecEsc == InitEsc /\ [][NextEsc]_vars

(***************************************************************************)
(* ConversationMemory driven by add_message and clear: the two limits are  *)
(* drawn at construction, then messages of several lengths are added       *)
(***************************************************************************)
\* contents of 2, 4 and 11 characters
MemTexts == { "ok", "late", "where is it" }
MemRoles == { "user", "assistant" }

InitMem ==
    /\ orch = ConversationOrchestrator("fashionhub")
    /\ last = NoTurn
    /\ EscIdle
    /\ \E max_history \in 1..MaxMemHistory : \E max_tokens \in 1..MaxMemTokens :
           memory = ConversationMemory(max_history, max_tokens)
    /\ appended = << >>
    /\ RouterIdle
    /\ ComposeIdle
    /\ RetryIdle
    /\ TopicIdle
    /\ TenantIdle

AddMessage ==
    /\ Len(appended) < MaxAppends
    /\ \E role \in MemRoles : \E content \in MemTexts :
          /\ memory' = add_message(memory, role, content)
          /\ appended' = Append(appended, [role |-> role, content |-> content])
    /\ UNCHANGED << orch, last, esc_vars, router_vars, compose_vars, retry_vars, topic_vars, tenant_vars >>

MemoryClear ==
    /\ appended # << >>
    /\ memory' = memory_clear(memory)
    /\ appended' = << >>
    /\ UNCHANGED << orch, last, esc_vars, router_vars, compose_vars, retry_vars, topic_vars, tenant_vars >>

NextMem == AddMessage \/ MemoryClear

SpecMem == InitMem /\ [][NextMem]_vars

(***************************************************************************)
(* Tool routing as a function of the message and the active topic: both    *)
(* are drawn at the start, then select_tool and _extract_tool_params run   *)
(***************************************************************************)
RouterMessages ==
    { "ship to pincode 400001",
      "where is order 12345",
      "what's your return policy?",
      "400001",
      "Can you deliver my order to pincode 400001?",
      "why is it late?",
      "hello there",
      "do you have a warranty",
      "Where's order 67890?",
      "is this item in stock",
      "what is the status?" }

RouterTopics ==
    { NoDict,
      [topic_type |-> "ORDER", entity_id |-> "12345",
       context |-> "User asked about order status"],
      [topic_type |-> "ORDER", entity_id |-> "67890",
       context |-> "User asked about order status"],
      [topic_type |-> "POLICY", entity_id |-> "general",
       context |-> "what's your return policy?"] }

ToolNames == {RegisteredTools[i].name : i \in 1..Len(RegisteredTools)}

InitRouter ==
    /\ orch = ConversationOrchestrator("fashionhub")
    /\ last = NoTurn
    /\ EscIdle
    /\ MemIdle
    /\ router \in [message : RouterMessages, active_topic : RouterTopics]
    /\ routed = NoDict
    /\ ComposeIdle
    /\ RetryIdle
    /\ TopicIdle
    /\ TenantIdle

SelectTool ==
    /\ routed = NoDict
    /\ routed' = [selected |-> select_tool(router.message),
                  extracted |-> FALSE, tool_name |-> None, params |-> NoDict]
    /\ UNCHANGED << orch, last, esc_vars, mem_vars, router, compose_vars, retry_vars, topic_vars, tenant_vars >>

ExtractToolParams ==
    /\ routed # NoDict
    /\ ~ routed.extracted
    /\ \E tool_name \in ToolNames :
          routed' = [routed EXCEPT
                       !.extracted = TRUE,
                       !.tool_name = tool_name,
                       !.params = _extract_tool_params(
                                      [orch EXCEPT !.active_topic = router.active_topic],
                                      router.message, tool_name)]
    /\ UNCHANGED << orch, last, esc_vars, mem_vars, router, compose_vars, retry_vars, topic_vars, tenant_vars >>

NextRouter == SelectTool \/ ExtractToolParams

SpecRouter == InitRouter /\ [][NextRouter]_vars

(***************************************************************************)
(* compose_response as a function of its arguments and of what the         *)
(* chat-completion backend does at each call made to it                    *)
(***************************************************************************)
ComposeScenarios ==
    { "delay_explanation", "order_status_simple", "order_status_query", "general_query" }

ComposeFacts == { NoDict, ("order_id" :> "12345") }

ComposeOutcomes ==
    { [raised |-> TRUE, error |-> "APITimeoutError"],
      [raised |-> TRUE, error |-> "AuthenticationError"],
      [raised |-> FALSE, content |-> None],
      [raised |-> FALSE, content |-> ""],
      [raised |-> FALSE, content |-> "Happy to help with that."],
      [raised |-> FALSE, content |-> "I'll cancel that for you right away."],
      [raised |-> FALSE, content |-> "Your TRACKING NUMBER IS 12345"] }

InitCompose ==
    /\ orch = ConversationOrchestrator("fashionhub")
    /\ last = NoTurn
    /\ EscIdle
    /\ MemIdle
    /\ RouterIdle
    /\ RetryIdle
    /\ TopicIdle
    /\ TenantIdle
    /\ \E n \in 1..MaxLLMCalls :
          compose_in \in [scenario : ComposeScenarios, facts : ComposeFacts,
                          emotion : {"neutral"}, llm_calls : [1..n -> ComposeOutcomes]]
    /\ composed = NoDict
    /\ error_handler = ErrorHandler
    /\ llm_failure = NoDict

\* compose_response makes one chat-completion call and returns
ComposeResponse ==
    /\ composed = NoDict
    /\ LET result == compose_response(compose_in.scenario, compose_in.facts, << >>,
                                      compose_in.emotion, compose_in.llm_calls[1])
       IN  composed' = [raised |-> result.raised, text |-> result.text, attempts |-> 1]
    /\ UNCHANGED << orch, last, esc_vars, mem_vars, router_vars, retry_vars,
                    topic_vars, tenant_vars, compose_in, error_handler, llm_failure >>

\* the failed call is reported to the error handler with some retry count
HandleLLMFailure ==
    /\ composed # NoDict
    /\ llm_failure = NoDict
    /\ compose_in.llm_calls[1].raised
    /\ \E retry_count \in 0..MaxRetryCount :
          LET call == handle_llm_failure(error_handler, compose_in.llm_calls[1].error,
                                         retry_count)
          IN  /\ error_handler' = call.self
              /\ llm_failure' = call.result
    /\ UNCHANGED << orch, last, esc_vars, mem_vars, router_vars, retry_vars,
                    topic_vars, tenant_vars, compose_in, composed >>

NextCompose == ComposeResponse \/ HandleLLMFailure

SpecCompose == InitCompose /\ [][NextCompose]_vars

(***************************************************************************)
(* execute_with_retry as a function of the tool, max_retries and what the  *)
(* tool does at each call                                                  *)
(***************************************************************************)
RetryOutcomes ==
    { [raised |-> FALSE, value |-> "data"] }
    \cup { [raised |-> TRUE, error |-> e] : e \in ToolErrors }

InitRetry ==
    /\ orch = ConversationOrchestrator("fashionhub")
    /\ last = NoTurn
    /\ EscIdle
    /\ MemIdle
    /\ RouterIdle
    /\ ComposeIdle
    /\ retry_in \in [tool_name : {"get_order_status", "search_knowledge"},
                     max_retries : 0..MaxRetries,
                     outcomes : [1..(MaxRetries + 1) -> RetryOutcomes]]
    /\ registry = ToolRegistry
    /\ retried = NoDict
    /\ TopicIdle
    /\ TenantIdle

ExecuteWithRetry ==
    /\ retried = NoDict
    /\ LET call == execute_with_retry(registry, retry_in.tool_name, retry_in.max_retries,
                                      NoDict, retry_in.outcomes)
       IN  /\ registry' = call.self
           /\ retried' = [result |-> call.result, attempts |-> call.attempts]
    /\ UNCHANGED << orch, last, esc_vars, mem_vars, router_vars, compose_vars, retry_in,
                    topic_vars, tenant_vars >>

NextRetry == ExecuteWithRetry

SpecRetry == InitRetry /\ [][NextRetry]_vars


(***************************************************************************)
(* Properties                                                              *)
(***************************************************************************)
\* phrases of the Tier-1 and human-request lists, as the lists are documented
HumanRequestPhrases ==
    { "speak to human", "talk to person", "real person",
      "customer service", "manager", "supervisor" }

ContainsAny(phrases, message) == \E p \in phrases : Contains(p, Lower(message))

HasTier1Phrase(message) == ContainsAny(TIER1_PHRASES, message)
HasHumanRequest(message) == ContainsAny(HumanRequestPhrases, message)

Called == esc_calls > 0

\* how many of the last n entries of an emotion history are frustrated
RecentFrustrated(history, n) ==
    Cardinality({i \in 1..Len(history) :
                    i > Len(history) - n /\ history[i].emotion = "frustrated"})

Tier2Result ==
    _check_tier2_conditional(Lower(esc_ctx.message), esc_ctx.emotion,
                             esc_ctx.emotion_history, esc_ctx.confidence,
                             esc_ctx.tool_failures)

\* C1: every process_message call returns without raising and its response is
\* a non-empty text, whatever the message and whatever the remote calls do.
AlwaysAnswers ==
    last # NoTurn => (~ last.raised /\ last.response \notin {None, ""})

Tier1IsMandatory ==
    (Called /\ HasTier1Phrase(esc_ctx.message))
    => ( /\ esc_out.should_escalate
         /\ esc_out.escalation_tier = 1
         /\ esc_out.urgency = "critical"
         /\ ~ esc_out.prevent_escalation )

\* C3 witness: a message with a Tier-1 phrase and a human-request phrase, on an
\* empty emotion history, is a tier-1 escalation.
Tier1IsMandatory_witness ==
    /\ Called
    /\ esc_ctx.message = "I want a refund, or I talk to customer service"
    /\ esc_ctx.emotion_history = << >>
    /\ Tier2Result.escalate
    /\ esc_out.escalation_tier = 1

\* C4: when a Tier-2 trigger fires and no Tier-1 phrase is present, the
\* verdict is tier-3 empathy-first exactly when fewer than two of the last two
\* emotion-history entries are 'frustrated' (a history shorter than two
\* included), and a tier-2 escalation exactly when both are.
EmpathyFirstRule ==
    (Called /\ ~ HasTier1Phrase(esc_ctx.message) /\ Tier2Result.escalate)
    => IF RecentFrustrated(esc_ctx.emotion_history, 2) < 2
       THEN /\ esc_out.escalation_tier = 3
            /\ ~ esc_out.should_escalate
            /\ esc_out.prevent_escalation
       ELSE /\ esc_out.escalation_tier = 2
            /\ esc_out.should_escalate
            /\ ~ esc_out.prevent_escalation

\* C4 witness: a trigger on a history whose last two entries are one
\* frustrated and one not is answered with empathy.
EmpathyFirstRule_witness ==
    /\ Called
    /\ ~ HasTier1Phrase(esc_ctx.message)
    /\ Tier2Result.escalate
    /\ Len(esc_ctx.emotion_history) >= 2
    /\ RecentFrustrated(esc_ctx.emotion_history, 2) = 1
    /\ esc_out.escalation_tier = 3

\* C5: empathy-first is one-shot: no two consecutive turns of a conversation
\* both have a prevent_escalation verdict.
EmpathyIsOneShot ==
    (last # NoTurn /\ last.previous_verdict # NoDict
     /\ last.previous_verdict.prevent_escalation)
    => ~ last.verdict.prevent_escalation

\* C6: a fourth consecutive frustrated message with no Tier-1 phrase and no
\* human-request phrase is a tier-2 escalation with reason
\* 'repeated_frustration', never an empathy-first suppression.
RepeatedFrustrationEscalates ==
    ( /\ last # NoTurn
      /\ Len(orch.emotion_history) >= 4
      /\ RecentFrustrated(orch.emotion_history, 4) = 4
      /\ ~ HasTier1Phrase(last.user_message)
      /\ ~ HasHumanRequest(last.user_message) )
    => ( /\ last.verdict.should_escalate
         /\ last.verdict.escalation_tier = 2
         /\ last.verdict.reason = "repeated_frustration"
         /\ ~ last.verdict.prevent_escalation )

\* C6 witness: the fourth frustrated turn of a conversation, with strong
\* frustration words in the message and two tool failures counted.
RepeatedFrustrationEscalates_witness ==
    /\ last # NoTurn
    /\ Len(orch.emotion_history) = 4
    /\ RecentFrustrated(orch.emotion_history, 4) = 4
    /\ last.user_message = "this is ridiculous and unacceptable"
    /\ orch.tool_stats.tool_failures >= 2
    /\ last.verdict.reason = "repeated_frustration"

\* C7: a message with a human-request phrase and no Tier-1 phrase makes the
\* Tier-2 rule fire with reason 'explicit_human_request' and urgency 'high'.
HumanRequestFires ==
    (Called /\ ~ HasTier1Phrase(esc_ctx.message) /\ HasHumanRequest(esc_ctx.message))
    => ( /\ Tier2Result.escalate
         /\ Tier2Result.reason = "explicit_human_request"
         /\ Tier2Result.urgency = "high"
         /\ esc_out.escalation_tier \in {2, 3} )

\* C8: the first message of a conversation that asks for a human is escalated
\* on that turn: the metadata carries an escalation with should_escalate true
\* and tier 2.
FirstHumanRequestEscalates ==
    ( /\ last # NoTurn
      /\ last.calls = 1
      /\ last.user_message \in {"I want to speak to a human", "Let me talk to your manager"} )
    => ( /\ ~ last.raised
         /\ last.metadata.escalation # NoDict
         /\ last.metadata.escalation.should_escalate
         /\ last.metadata.escalation.escalation_tier = 2 )

\* the category of the claim's priority order that a message falls in
ExpectedTier1Reason(message) ==
    IF ContainsAny({"refund", "money back"}, message) THEN "refund_request"
    ELSE IF ContainsAny({"cancel order", "cancel my order"}, message)
    THEN "cancellation_request"
    ELSE IF ContainsAny({"lawyer", "legal action", "sue", "court", "attorney"}, message)
    THEN "legal_threat"
    ELSE IF ContainsAny({"chargeback", "dispute charge", "fraud", "scam", "stolen"}, message)
    THEN "chargeback_fraud"
    ELSE IF ContainsAny({"fuck", "shit", "bastard", "bitch"}, message)
    THEN "severe_abuse"
    ELSE "tier1_trigger"

\* C9: the reason of a tier-1 verdict is the highest-priority category with a
\* phrase in the message, in the order refund, cancellation, legal, fraud,
\* abuse; 'tier1_trigger' is given only when no category phrase is present.
Tier1ReasonByPriority ==
    (Called /\ esc_out.escalation_tier = 1)
    => esc_out.reason = ExpectedTier1Reason(esc_ctx.message)

Entries(messages) ==
    [i \in 1..Len(messages) |-> [role |-> messages[i].role, content |-> messages[i].content]]

\* sum of the token counts stored with the messages
StoredTokens(messages) == SumTokens(messages)

\* C11: after every add_message, whatever was added before, the memory holds
\* at most max_history messages.
MemoryCountBounded == Len(memory.messages) <= memory.max_history

\* more messages were added than max_history allows, and the memory is full
MemoryCountBounded_witness ==
    /\ Len(appended) > memory.max_history
    /\ Len(memory.messages) = memory.max_history

\* C12 as stated: after every add_message the token counts of the retained
\* messages sum to at most max_tokens.
MemoryTokensBounded == StoredTokens(memory.messages) <= memory.max_tokens

\* C12 amended: after every add_message the token counts of the retained
\* messages sum to at most max_tokens, or at most 2 messages are retained.
MemoryTokensBoundedAboveFloor ==
    \/ StoredTokens(memory.messages) <= memory.max_tokens
    \/ Len(memory.messages) <= 2

\* the token eviction has removed messages and more than 2 are left
MemoryTokensBoundedAboveFloor_witness ==
    /\ Len(memory.messages) < Len(appended)
    /\ Len(memory.messages) < memory.max_history
    /\ Len(memory.messages) > 2
    /\ StoredTokens(memory.messages) <= memory.max_tokens

\* C13 as stated: under every max_history and max_tokens, once 2 messages have
\* been added since the last clear the memory holds at least 2 messages.
TwoMessagesSurvive == Len(appended) >= 2 => Len(memory.messages) >= 2

\* C13 amended: when max_history is at least 2, once 2 messages have been added
\* since the last clear the memory holds at least 2 messages.
TwoMessagesSurviveTokenEviction ==
    (memory.max_history >= 2 /\ Len(appended) >= 2) => Len(memory.messages) >= 2

\* the token eviction stopped at 2 messages that are still over max_tokens
TwoMessagesSurviveTokenEviction_witness ==
    /\ memory.max_history > 2
    /\ Len(appended) > 2
    /\ Len(memory.messages) = 2
    /\ StoredTokens(memory.messages) > memory.max_tokens

\* C14: the retained messages are the last Len(messages) of the messages added
\* since the last clear, in the order they were added.
RetainedIsSuffix ==
    /\ Len(memory.messages) <= Len(appended)
    /\ Entries(memory.messages) =
          SubSeq(appended, Len(appended) - Len(memory.messages) + 1, Len(appended))

\* messages were evicted, several are left, and the oldest one left differs
\* from the first one added
RetainedIsSuffix_witness ==
    /\ Len(memory.messages) < Len(appended)
    /\ Len(memory.messages) >= 2
    /\ Entries(memory.messages)[1] # appended[1]

\* C15 as stated: the token count stored with a message is ceil(len/4) + 1.
StoredTokensAreCeilPlusOne ==
    \A i \in 1..Len(memory.messages) :
        memory.messages[i].tokens = ((Len(memory.messages[i].content) + 3) \div 4) + 1

\* C15 amended: the token count stored with a message is floor(len/4) + 1.
StoredTokensAreFloorPlusOne ==
    \A i \in 1..Len(memory.messages) :
        memory.messages[i].tokens = (Len(memory.messages[i].content) \div 4) + 1

\* a message whose length is a multiple of 4 and one whose length is not are stored
StoredTokensAreFloorPlusOne_witness ==
    /\ \E i \in 1..Len(memory.messages) : Len(memory.messages[i].content) % 4 = 0
    /\ \E i \in 1..Len(memory.messages) : Len(memory.messages[i].content) % 4 # 0

(***************************************************************************)
(* Tool routing                                                            *)
(***************************************************************************)
KeywordsOfTool(name) ==
    LET i == CHOOSE k \in 1..Len(RegisteredTools) : RegisteredTools[k].name = name
    IN  {RegisteredTools[i].keywords[j] : j \in 1..Len(RegisteredTools[i].keywords)}

\* the message holds a 6-digit numeric token or a keyword of the shipping tool
HasShippingCue(message) ==
    \/ SearchDigits(message, 6, 6) # None
    \/ ContainsAny(KeywordsOfTool("check_shipping_eligibility"), message)

HasOrderCue(message) == ContainsAny(KeywordsOfTool("get_order_status"), message)

HasProductCue(message) == ContainsAny(KeywordsOfTool("get_product_info"), message)

HasPolicyCue(message) == ContainsAny(KeywordsOfTool("search_knowledge"), message)

EndsInQuestionMark(message) ==
    Len(message) > 0 /\ CharAt(message, Len(message)) = "?"

\* C16: select_tool returns the shipping-eligibility tool for every message
\* that holds a 6-digit numeric token or a shipping keyword, whether or not it
\* also holds an order keyword.
ShippingRuleFirst ==
    (routed # NoDict /\ HasShippingCue(router.message))
        => routed.selected = "check_shipping_eligibility"

\* C17: for a message that matches none of the shipping, order and product
\* rules, select_tool returns the knowledge tool when the message holds a
\* policy keyword or ends in '?', and no tool otherwise.
KnowledgeRuleLast ==
    (/\ routed # NoDict
     /\ ~ HasShippingCue(router.message)
     /\ ~ HasOrderCue(router.message)
     /\ ~ HasProductCue(router.message))
        => routed.selected =
              IF HasPolicyCue(router.message) \/ EndsInQuestionMark(router.message)
              THEN "search_knowledge" ELSE None

\* a 4-5 digit number in the message that is not the order of the active topic
NewOrderNumber ==
    /\ router.active_topic # NoDict
    /\ router.active_topic.topic_type = "ORDER"
    /\ SearchDigits(router.message, 4, 5) # None
    /\ SearchDigits(router.message, 4, 5) # router.active_topic.entity_id

\* C19: with an active ORDER topic for X and a 4-5 digit order number Y # X in
\* the message, _extract_tool_params for get_order_status returns order_id = Y.
MessageOrderOverridesTopic ==
    (/\ routed # NoDict
     /\ routed.extracted
     /\ routed.tool_name = "get_order_status"
     /\ NewOrderNumber)
        => routed.params = ("order_id" :> SearchDigits(router.message, 4, 5))

(***************************************************************************)
(* Active topic                                                            *)
(***************************************************************************)
NoDigitSequence(message) ==
    \A i \in 1..Len(message) : ~ IsDigit(CharAt(message, i))

\* C18: when the turn before looked an order up with success, the turn starts
\* with the topic ORDER X, the message is not empty, holds no digit and the context
\* resolution keeps the topic, the turn calls the order-status tool with
\* order_id = X.
TopicCarriedOver ==
    (/\ last # NoTurn
     /\ ~ last.raised
     /\ last.previous_tool_success
     /\ last.topic_before # NoDict
     /\ last.topic_before.topic_type = "ORDER"
     /\ last.user_message # ""
     /\ NoDigitSequence(last.user_message)
     /\ ~ last.verdict.should_escalate
     /\ last.topic_resolved = last.topic_before)
        => /\ last.tool_used = "get_order_status"
           /\ last.tool_params = ("order_id" :> last.topic_before.entity_id)

\* C20: the active topic a turn ends with differs from the topic left by that
\* turn's context resolution only when the turn's order or knowledge tool call
\* succeeded.
TopicSetOnlyOnSuccess ==
    (last # NoTurn /\ orch.active_topic # last.topic_resolved)
        => /\ last.tool_success
           /\ last.tool_used \in {"get_order_status", "search_knowledge"}

\* the resolver's answer of the latest turn says the topic continues
JudgedContinued(turn) ==
    /\ turn.context_result.about_current_topic
    /\ turn.context_result.confidence > 7

\* C21: a turn that starts with an active topic keeps it and counts
\* context_maintained exactly when the resolver returns about_current_topic
\* with confidence above 0.7, and otherwise clears it and counts a topic
\* switch; context_resolutions = context_maintained + topic_switches always.
TopicContinuedOrSwitched ==
    /\ [](orch.context_stats.context_resolutions =
             orch.context_stats.context_maintained + orch.context_stats.topic_switches)
    /\ [][(last' # NoTurn /\ orch.active_topic # NoDict) =>
             /\ orch'.context_stats.context_resolutions =
                    orch.context_stats.context_resolutions + 1
             /\ IF JudgedContinued(last')
                THEN /\ last'.topic_resolved = orch.active_topic
                     /\ orch'.context_stats.context_maintained =
                            orch.context_stats.context_maintained + 1
                     /\ orch'.context_stats.topic_switches =
                            orch.context_stats.topic_switches
                ELSE /\ last'.topic_resolved = NoDict
                     /\ orch'.context_stats.context_maintained =
                            orch.context_stats.context_maintained
                     /\ orch'.context_stats.topic_switches =
                            orch.context_stats.topic_switches + 1]_vars

\* the resolver said the topic continues, with a confidence of 0.7 or less,
\* and the topic was cleared
TopicContinuedOrSwitched_witness ==
    /\ last # NoTurn
    /\ last.topic_before # NoDict
    /\ last.context_result.about_current_topic
    /\ last.context_result.confidence <= 7
    /\ last.topic_resolved = NoDict
    /\ orch.context_stats.topic_switches = 1

\* C22: when the resolver's remote call fails on a turn that starts with an
\* active topic, the topic is kept and no topic switch is counted.
ResolverFailureKeepsTopic ==
    (/\ last # NoTurn
     /\ last.topic_before # NoDict
     /\ last.resolver_llm.raised)
        => /\ last.topic_resolved = last.topic_before
           /\ orch.context_stats.topic_switches = 0

(***************************************************************************)
(* Response composition                                                    *)
(***************************************************************************)
DedicatedFallbackScenarios ==
    { "delay_explanation", "cancellation_request", "order_status_simple" }

TextGenerationFailed == composed # NoDict /\ compose_in.llm_calls[1].raised

\* C23: when the text-generation call fails, compose_response does not raise
\* and returns the non-empty fallback text of the scenario, the default one
\* for a scenario without an entry of its own.
FallbackOnGenerationFailure ==
    TextGenerationFailed =>
        /\ ~ composed.raised
        /\ composed.text \notin {None, ""}
        /\ composed.text = _safe_fallback_response(compose_in.scenario, compose_in.facts)
        /\ (compose_in.scenario \in DedicatedFallbackScenarios) =
              (composed.text # _safe_fallback_response("default", compose_in.facts))

\* the call failed for a scenario with its own fallback and a known order id
FallbackOnGenerationFailure_witness ==
    /\ TextGenerationFailed
    /\ compose_in.scenario = "delay_explanation"
    /\ compose_in.facts # NoDict
    /\ compose_in.llm_calls[1].error = "APITimeoutError"

RetryableLLMErrors ==
    { "RateLimitError", "APITimeoutError", "APIConnectionError", "InternalServerError" }

\* C24: after a retryable text-generation error the call is made again, at
\* most 2 retries are granted, and the waits are 1 and then 2 seconds.
GenerationIsRetried ==
    /\ (/\ TextGenerationFailed
         /\ compose_in.llm_calls[1].error \in RetryableLLMErrors
         /\ Len(compose_in.llm_calls) >= 2)
            => composed.attempts >= 2
    /\ (llm_failure # NoDict /\ llm_failure.retry)
            => /\ llm_failure.retry_count < 2
               /\ llm_failure.wait_time = 2 ^ llm_failure.retry_count

\* a forbidden promise-phrase occurs in the text, in any letter case
HasForbiddenPhrase(text) ==
    \E i \in 1..Len(hallucination_phrases) :
        Contains(LowerOf(hallucination_phrases[i]), LowerOf(text))

\* C25: a generated text that holds a forbidden promise-phrase, in any letter
\* case, is never returned: the scenario's fallback text is returned instead.
ForbiddenPhraseDiscarded ==
    (/\ composed # NoDict
     /\ ~ compose_in.llm_calls[1].raised
     /\ compose_in.llm_calls[1].content # None
     /\ HasForbiddenPhrase(compose_in.llm_calls[1].content))
        => /\ composed.text # compose_in.llm_calls[1].content
           /\ composed.text = _safe_fallback_response(compose_in.scenario, compose_in.facts)

(***************************************************************************)
(* Tool retry                                                              *)
(***************************************************************************)
RetryableClasses == { "timeout", "connection", "rate_limit", "server_error" }

FailedWith(outcome, classes) ==
    outcome.raised /\ _classify_error(outcome.error) \in classes

\* C26: execute_with_retry makes at most max_retries + 1 attempts, makes
\* another attempt only after a retryable error, makes one attempt when the
\* first error is not retryable, stops at the first success, and on failure
\* returns success = false with a non-empty fallback_message.
RetryIsBounded ==
    retried # NoDict =>
        /\ retried.attempts >= 1
        /\ retried.attempts <= retry_in.max_retries + 1
        /\ \A i \in 1..(retried.attempts - 1) :
              FailedWith(retry_in.outcomes[i], RetryableClasses)
        /\ FailedWith(retry_in.outcomes[1], {"not_found", "auth", "unknown"})
              => retried.attempts = 1
        /\ retried.result.success = ~ retry_in.outcomes[retried.attempts].raised
        /\ (retried.attempts <= retry_in.max_retries /\ ~ retried.result.success)
              => ~ FailedWith(retry_in.outcomes[retried.attempts], RetryableClasses)
        /\ ~ retried.result.success
              => /\ registry.retry_stats.failed_executions = 1
                 /\ retried.result.fallback_message \notin {None, ""}

\* the budget of 2 retries was used up by three retryable errors
RetryIsBounded_witness ==
    /\ retried # NoDict
    /\ retry_in.max_retries = 2
    /\ retried.attempts = 3
    /\ ~ retried.result.success
    /\ retried.result.retries = 2

\* C27: a tool call of process_message that fails with a retryable error is
\* made a second time before the turn records a tool failure.
ToolFailureIsRetried ==
    (/\ last # NoTurn
     /\ last.tool_used # None
     /\ ~ last.tool_success
     /\ last.tool_error # None
     /\ _classify_error(last.tool_error) \in RetryableClasses)
        => last.tool_attempts >= 2

(***************************************************************************)
(* Scenario table                                                          *)
(***************************************************************************)
\* the facts key under which each tool's data is stored
DataKeyOf(tool_used) ==
    CASE tool_used = "get_order_status" -> "order_data"
      [] tool_used = "search_knowledge" -> "knowledge_data"
      [] tool_used = "check_shipping_eligibility" -> "shipping_data"
      [] tool_used = "get_product_info" -> "product_data"
      [] OTHER -> "no_data"

ToolDataInFacts(turn) ==
    /\ Has(turn.facts, DataKeyOf(turn.tool_used))
    /\ turn.facts[DataKeyOf(turn.tool_used)] \notin {None, ""}

ExpectedScenario(tool_used, data_in_facts, emotion) ==
    IF tool_used = "get_order_status" /\ data_in_facts
    THEN IF emotion = "frustrated" THEN "frustrated_customer_with_order"
         ELSE "order_status_query"
    ELSE IF tool_used = "search_knowledge" /\ data_in_facts
    THEN "policy_question"
    ELSE IF tool_used = "check_shipping_eligibility" /\ data_in_facts
    THEN "shipping_inquiry"
    ELSE IF emotion = "frustrated"
    THEN "frustrated_customer"
    ELSE "general_query"

\* C28: on a turn without an escalation verdict the scenario is given by the
\* tool used, whether that tool's data is in the facts, and the emotion: order
\* data -> frustrated_customer_with_order / order_status_query, knowledge
\* data -> policy_question, shipping data -> shipping_inquiry, no tool data ->
\* frustrated_customer / general_query.
ScenarioTable ==
    (last # NoTurn /\ ~ last.raised /\ ~ last.verdict.should_escalate)
        => last.metadata.scenario =
              ExpectedScenario(last.tool_used, ToolDataInFacts(last), last.metadata.emotion)

\* a frustrated customer's order lookup succeeded
ScenarioTable_witness ==
    /\ last # NoTurn
    /\ ~ last.raised
    /\ ~ last.verdict.should_escalate
    /\ last.metadata.emotion = "frustrated"
    /\ last.tool_used = "get_order_status"
    /\ ToolDataInFacts(last)
    /\ last.metadata.scenario = "frustrated_customer_with_order"

(***************************************************************************)
(* Repeated questions and empty messages                                   *)
(***************************************************************************)
\* C29: when the same question has been asked three times in a row, the third
\* turn carries an escalation verdict.
ThirdRepeatEscalates ==
    (last # NoTurn /\ ~ last.raised /\ last.user_message # "" /\ last.repeats >= 3)
        => last.verdict.should_escalate

\* the reply is the clarification request for an empty input
RequestsClarification(turn) ==
    turn.response = _build_invalid_input_response("empty", turn.user_message, NoDict)

\* a turn whose user message is empty never carries an escalation verdict
EmptyMessageNeverEscalates ==
    (last # NoTurn /\ ~ last.raised /\ last.user_message = "")
        => ~ last.verdict.should_escalate

\* C30: a turn whose user message is empty is answered with a request for
\* clarification and never carries an escalation verdict.
EmptyMessageAsksClarification ==
    (last # NoTurn /\ ~ last.raised /\ last.user_message = "")
        => (RequestsClarification(last) /\ ~ last.verdict.should_escalate)

(***************************************************************************)
(* Statistics                                                              *)
(***************************************************************************)
\* C38: after every turn each counted tool call is resolved as a success or a
\* failure: tool_calls = tool_successes + tool_failures.
ToolCallsResolved ==
    orch.tool_stats.tool_calls =
        orch.tool_stats.tool_successes + orch.tool_stats.tool_failures

\* a verdict's flags, tier and suggested message agree
WellFormedVerdict(v) ==
    /\ v.should_escalate <=> v.escalation_tier \in {1, 2}
    /\ v.prevent_escalation <=> v.escalation_tier = 3
    /\ ~ (v.should_escalate /\ v.prevent_escalation)
    /\ (v.suggested_message \notin {None, ""}) <=> v.escalation_tier # 0

\* every verdict of the stand-alone manager is well-formed
ManagerVerdictWellFormed == Called => WellFormedVerdict(esc_out)

\* C39: the verdict of every turn is well-formed (should_escalate exactly at
\* tier 1 or 2, prevent_escalation exactly at tier 3, never both, a non-empty
\* suggested message exactly when the tier is not 0), and after every turn
\* escalations_triggered = tier1_escalations + tier2_escalations.
VerdictWellFormed ==
    /\ (last # NoTurn => WellFormedVerdict(last.verdict))
    /\ orch.escalation_stats.escalations_triggered =
           orch.escalation_stats.tier1_escalations
             + orch.escalation_stats.tier2_escalations

\* a turn escalated at tier 2 in a conversation that had an empathy-first turn
VerdictWellFormed_witness ==
    /\ last # NoTurn
    /\ last.verdict.escalation_tier = 2
    /\ last.previous_verdict # NoDict
    /\ last.previous_verdict.escalation_tier = 3
    /\ orch.escalation_stats.escalations_prevented >= 1
    /\ orch.escalation_stats.escalations_triggered >= 1

(***************************************************************************)
(* Tool failures over a conversation                                       *)
(***************************************************************************)
\* C37: the tool-failure count only drops when the conversation is cleared,
\* and a turn that starts with a count of 2 or more never gets a tier-0
\* verdict.
ToolFailuresLatch ==
    [][ /\ (last' # NoTurn => orch'.tool_stats.tool_failures >= orch.tool_stats.tool_failures)
        /\ (last' # NoTurn /\ orch.tool_stats.tool_failures >= 2)
               => last'.verdict.escalation_tier # 0 ]_vars

\* a turn that started with two tool failures behind it
ToolFailuresLatch_witness ==
    /\ last # NoTurn
    /\ last.failures_before >= 2
    /\ last.verdict.escalation_tier \in {2, 3}

(***************************************************************************)
(* Reset                                                                   *)
(***************************************************************************)
\* the orchestrator without its manager's escalation log
StripLog(o) == [o EXCEPT !.escalation_manager = [escalation_history |-> << >>]]

\* a turn on o gives what the same turn gives on o without the log
LogBlindTurn(o, user_message, resolver_llm, tool_outcome, llm) ==
    LET a == process_message(o, user_message, NoDict, << >>, resolver_llm, tool_outcome, llm)
        b == process_message(StripLog(o), user_message, NoDict, << >>,
                             resolver_llm, tool_outcome, llm)
    IN  [a EXCEPT !.self = StripLog(@)] = [b EXCEPT !.self = StripLog(@)]

LogBlind(o) ==
    \A user_message \in Corpus :
    \A resolver_llm \in IF o.active_topic = NoDict THEN {NoCall} ELSE ResolverOutcomes :
    \A tool_outcome \in IF ToolFor(user_message) = None THEN {NoCall} ELSE ToolOutcomes :
    \A llm \in LLMOutcomes :
        LogBlindTurn(o, user_message, resolver_llm, tool_outcome, llm)

EmotionsOf(history) == [i \in 1..Len(history) |-> history[i].emotion]

\* the verdict the policy gives when it sees `history`
VerdictSeeing(turn, history) ==
    EscalationVerdict([message |-> turn.user_message,
                       emotion |-> turn.emotions[Len(turn.emotions)],
                       emotion_history |-> history,
                       confidence |-> 10,
                       scenario |-> "",
                       tool_failures |-> turn.failures_before])

\* C33: the emotion history holds at most 10 entries, they are the emotions
\* of the most recent turns in order, and the verdict of a turn is the one the
\* policy gives on the history that ends with the turn's own emotion.
EmotionHistoryRecent ==
    last # NoTurn =>
        /\ Len(orch.emotion_history) <= 10
        /\ EmotionsOf(orch.emotion_history) = LastN(last.emotions, 10)
        /\ last.verdict = VerdictSeeing(last, orch.emotion_history)

\* an eleventh turn: the oldest emotion, a frustrated one, has been dropped
EmotionHistoryRecent_witness ==
    /\ last # NoTurn
    /\ Len(last.emotions) = 11
    /\ last.emotions[1] = "frustrated"
    /\ last.emotions[2] = "neutral"
    /\ Len(orch.emotion_history) = 10
    /\ orch.emotion_history[1].emotion = "neutral"

\* C34: after every completed turn the two most recent memory entries are the
\* turn's user message followed by the response the turn returned.
TurnRecordedLast ==
    (last # NoTurn /\ ~ last.raised) =>
        LET messages == orch.context.memory.messages
            n == Len(messages)
        IN  /\ n >= 2
            /\ messages[n - 1].role = "user"
            /\ messages[n - 1].content = last.user_message
            /\ messages[n].role = "assistant"
            /\ messages[n].content = last.response

\* an escalated eleventh turn: the memory is full and has dropped its oldest
\* entries
TurnRecordedLast_witness ==
    /\ last # NoTurn
    /\ ~ last.raised
    /\ last.calls = 11
    /\ last.verdict.should_escalate
    /\ Len(orch.context.memory.messages) = 20
    /\ last.response = last.verdict.suggested_message

(***************************************************************************)
(* Prior facts                                                             *)
(***************************************************************************)
\* the turn that `turn` records, made on orchestrator o with no prior facts
TurnAlone(o, turn) ==
    process_message(o, turn.user_message, NoDict, << >>,
                    turn.resolver_llm, turn.tool_outcome, turn.llm)

\* C36: a turn given the caller's facts dictionary routes, selects its
\* scenario and answers as the same turn given no prior facts, and leaves the
\* caller's dictionary as it was.
FactsDoNotOutliveTurn ==
    [][ (last' # NoTurn /\ ~ last'.raised /\ ~ TurnAlone(orch, last').raised) =>
          /\ last'.tool_used = TurnAlone(orch, last').tool_used
          /\ last'.metadata.scenario = TurnAlone(orch, last').metadata.scenario
          /\ last'.response = TurnAlone(orch, last').response
          /\ last'.facts = last'.facts_in ]_vars

\* the same, without the requirement on the caller's dictionary
FactsDoNotSteerTurn ==
    [][ (last' # NoTurn /\ ~ last'.raised /\ ~ TurnAlone(orch, last').raised) =>
          /\ last'.tool_used = TurnAlone(orch, last').tool_used
          /\ last'.metadata.scenario = TurnAlone(orch, last').metadata.scenario
          /\ last'.response = TurnAlone(orch, last').response ]_vars

(***************************************************************************)
(* Topic invariant                                                         *)
(***************************************************************************)
\* a NONE topic has no entity id and NONE confidence, any other topic has a
\* confidence
TopicInvariantOf(topic_type, entity_id, confidence) ==
    /\ topic_type = "NONE" => (entity_id = None /\ confidence = "NONE")
    /\ topic_type # "NONE" => confidence # "NONE"

\* the topic held by the context and the value or failure of the latest
\* construction agree with the topic invariant
TopicValuesValid ==
    /\ conv_context.active_topic # NoDict =>
          TopicInvariantOf(conv_context.active_topic.topic_type,
                           conv_context.active_topic.entity_id,
                           conv_context.active_topic.confidence)
    /\ topic_call # NoDict =>
          /\ topic_call.made.raised <=>
                ~ TopicInvariantOf(topic_call.topic_type, topic_call.entity_id,
                                   topic_call.confidence)
          /\ (topic_call.via = "ActiveTopic" /\ ~ topic_call.made.raised) =>
                TopicInvariantOf(topic_call.made.value.topic_type,
                                 topic_call.made.value.entity_id,
                                 topic_call.made.value.confidence)

\* C32: every ActiveTopic value that exists, built directly or held by the
\* context, satisfies the topic invariant; building a violating value fails,
\* and a failed set_active_topic leaves the context's topic as it was.
TopicInvariantEnforced ==
    /\ []TopicValuesValid
    /\ [][ (topic_call' # topic_call /\ topic_call'.via = "set_active_topic"
             /\ topic_call'.made.raised)
            => conv_context' = conv_context ]_vars

\* set_active_topic with an ORDER topic of NONE confidence has failed on a
\* context that holds a topic
TopicInvariantEnforced_witness ==
    /\ topic_call # NoDict
    /\ topic_call.via = "set_active_topic"
    /\ topic_call.topic_type = "ORDER"
    /\ topic_call.confidence = "NONE"
    /\ topic_call.made.raised
    /\ conv_context.active_topic # NoDict
    /\ conv_context.active_topic = topic_call.before

(***************************************************************************)
(* Instances side by side                                                  *)
(***************************************************************************)
RECURSIVE RunAlone(_, _)
\* the orchestrator o after the turns of `calls`, run one after the other with
\* nothing else going on
RunAlone(o, calls) ==
    IF calls = << >>
    THEN o
    ELSE RunAlone(process_message(o, Head(calls).user_message, NoDict, << >>,
                                  Head(calls).resolver_llm, Head(calls).tool_outcome,
                                  Head(calls).llm).self,
                  Tail(calls))

====
